---- MODULE Spec2Model ----
(***************************************************************************)
(* On-device speech-to-text pipeline of SketchCode (Android app).         *)
(*                                                                         *)
(* This module models WhisperInference (encoder pass, greedy decoder loop  *)
(* with KV cache, tensor lifetimes) and the part of WhisperTokenizer the   *)
(* loop hands its tokens to.  Every caller of transcribe() is a process    *)
(* with its own locals; the engine fields (env, encoderSession,            *)
(* decoderSession) are shared by the callers of one instance.              *)
(***************************************************************************)
EXTENDS Integers, Sequences, FiniteSets, TLC

(***************************************************************************)
(* Program constants                                                       *)
(***************************************************************************)
MAX_TOKENS == 200
N_LAYERS == 4
MAX_DEC_SEQ == 199
ATTN_MASK_SIZE == MAX_DEC_SEQ + 1

EOT == 50257
SOT == 50258
EN == 50259
TRANSCRIBE == 50360
NO_TIMESTAMPS == 50364
FIRST_TIMESTAMP == 50365
FIRST_SPECIAL == 50257

\* fp16 bit patterns written into the attention mask
zeroFp16 == 0
negInfFp16 == 64512

(***************************************************************************)
(* Bounds of the model                                                     *)
(***************************************************************************)
\* Number of generating steps (after the prompt phase) at which the decoder
\* may answer any token of TokenChoices; afterwards it answers the call's
\* tailToken or EOT.
FreeSteps == 2

\* The callers of one WhisperInference instance.
Callers == {1, 2}

\* Tokens the decoder's argmax may produce: end of text, a timestamp,
\* and two text tokens ("i" and the byte-level space).
TokenChoices == {EOT, FIRST_TIMESTAMP, 72, 220}

\* What the decoder keeps answering once the free steps are over.
TailChoices == {72, FIRST_TIMESTAMP}

Layers == 0 .. (N_LAYERS - 1)

(***************************************************************************)
(* WhisperTokenizer.decode                                                 *)
(***************************************************************************)
\* Sample of vocab.json, inverted: token id -> BPE string (code points).
idToToken == (0 :> <<33>>) @@ (72 :> <<105>>) @@ (220 :> <<288>>)
             @@ (50257 :> <<60, 124, 101, 111, 116, 124, 62>>)

SelfMappedByte(b) == (b \in 33 .. 126) \/ (b \in 161 .. 172) \/ (b \in 174 .. 255)

\* The alphabet with the remaining bytes numbered from 255.
ByteToUnicodeFrom255 ==
    [b \in 0 .. 255 |->
        IF SelfMappedByte(b) THEN b
        ELSE 255 + Cardinality({x \in 0 .. (b - 1) : ~SelfMappedByte(x)})]

\* bs/cs of buildByteDecoder: byte b is written as code point ByteToUnicode[b].
ByteToUnicode ==
    [b \in 0 .. 255 |->
        IF SelfMappedByte(b) THEN b
        ELSE 256 + Cardinality({x \in 0 .. (b - 1) : ~SelfMappedByte(x)})]

\* The reversed map: code point -> byte value, -1 where the map has no entry.
byteDecoder ==
    [ch \in 0 .. 330 |->
        IF \E b \in 0 .. 255 : ByteToUnicode[b] = ch
        THEN CHOOSE b \in 0 .. 255 : ByteToUnicode[b] = ch
        ELSE -1]

RECURSIVE Concat(_)
Concat(ss) == IF ss = <<>> THEN <<>> ELSE Head(ss) \o Concat(Tail(ss))

RECURSIVE MapNotNull(_)
MapNotNull(ids) ==
    IF ids = <<>> THEN <<>>
    ELSE IF Head(ids) \in DOMAIN idToToken
         THEN <<idToToken[Head(ids)]>> \o MapNotNull(Tail(ids))
         ELSE MapNotNull(Tail(ids))

RECURSIVE DecodeBytes(_)
DecodeBytes(chars) ==
    IF chars = <<>> THEN <<>>
    ELSE IF Head(chars) \in DOMAIN byteDecoder /\ byteDecoder[Head(chars)] # -1
         THEN <<byteDecoder[Head(chars)]>> \o DecodeBytes(Tail(chars))
         ELSE DecodeBytes(Tail(chars))

\* String(bytes, UTF_8) for one- and two-byte sequences; any other byte is
\* replaced by U+FFFD.
RECURSIVE Utf8(_)
Utf8(bytes) ==
    IF bytes = <<>> THEN <<>>
    ELSE IF Head(bytes) < 128 THEN <<Head(bytes)>> \o Utf8(Tail(bytes))
    ELSE IF Head(bytes) \in 194 .. 223 /\ Len(bytes) >= 2 /\ bytes[2] \in 128 .. 191
         THEN <<(Head(bytes) - 192) * 64 + (bytes[2] - 128)>> \o Utf8(Tail(Tail(bytes)))
    ELSE <<65533>> \o Utf8(Tail(bytes))

IsWhitespace(ch) == ch \in (9 .. 13) \cup (28 .. 32) \cup {160}

RECURSIVE TrimStart(_)
TrimStart(s) ==
    IF s # <<>> /\ IsWhitespace(Head(s)) THEN TrimStart(Tail(s)) ELSE s

RECURSIVE TrimEnd(_)
TrimEnd(s) ==
    IF s # <<>> /\ IsWhitespace(s[Len(s)]) THEN TrimEnd(SubSeq(s, 1, Len(s) - 1)) ELSE s

Trim(s) == TrimEnd(TrimStart(s))

\* decode without the filter on special tokens.
decodeUnfiltered(tokenIds) ==
    Trim(Utf8(DecodeBytes(Concat(MapNotNull(tokenIds)))))

decode(tokenIds) ==
    LET textTokens == SelectSeq(tokenIds, LAMBDA t : t < FIRST_SPECIAL)
        bpeString  == Concat(MapNotNull(textTokens))
    IN  Trim(Utf8(DecodeBytes(bpeString)))

(***************************************************************************)
(* WhisperInference: state                                                 *)
(***************************************************************************)
VARIABLES
    env,              \* this.env # null
    encoderSession,   \* this.encoderSession # null
    decoderSession,   \* this.decoderSession # null
    pc,               \* per caller: where its transcribe() call is
    live,             \* per caller: the tensors created for its call and not closed
    selfCaches,       \* per caller: generation held by selfKCaches / selfVCaches
    allTokens,        \* per caller: the running token sequence
    generatedTokens,  \* per caller: the user-visible tokens
    position,         \* per caller: position
    step,             \* per caller: the loop variable
    brk,              \* per caller: the loop was left by a break
    inputs,           \* per caller: the inputs map of the decoder run in progress
    failure,          \* per caller: what failed during the call, "none" if nothing
    result,           \* per caller: what transcribe() gave its caller
    lastOut,          \* per caller: the last argmax token and the step that produced it
    decoderCalls,     \* per caller: number of decoder.run invocations
    encoderCalls,     \* per caller: number of encoder.run invocations
    tailToken,        \* per caller: the decoder's answer after the free steps
    files             \* ModelManager: the four model files on device storage

(***************************************************************************)
(* AudioCapture: state                                                     *)
(***************************************************************************)
SAMPLE_RATE == 16000
MAX_DURATION_SECONDS == 30
MAX_SAMPLES == SAMPLE_RATE * MAX_DURATION_SECONDS
chunkSize == 1024

\* The capture threads that can exist at one time.
ThreadIds == {"t1", "t2"}
\* Samples a read returns when the recorder was stopped while it blocked.
ShortRead == 300
\* Loop iterations a capture thread still reads after the object has dropped
\* its reference to it.
MaxLateReads == 1

VARIABLES
    audioRecord,      \* this.audioRecord: "null", "recording" or "stopped"
    recordingThread,  \* this.recordingThread: a thread of ThreadIds or "null"
    isRecording,      \* this.isRecording
    buffer,           \* this.buffer: how many samples it holds from each thread
    mainPc,           \* where the caller of start / stop / release is
    thPc,             \* per thread: "unborn", "loop", "append" or "done"
    thRead,           \* per thread: value of read while it is at "append"
    lateReads,        \* per thread: reads done since the object dropped it
    raced,            \* per thread: an unlocked clear() ran while it appends
    session,          \* thread of the start() not yet stopped, else "null"
    captured,         \* samples the session's thread appended since start()
    lastClip,         \* what the last stop() returned
    lastOp,           \* the call that returned last
    calledWhile,      \* the call in progress or returned last is a release()
                      \* or stop() made while isRecording was true
    returned,         \* the last step was the return of a call
    initFailed,       \* the recorder of the last start() did not initialize
    readFailed        \* a read of the session's thread returned an error

captureVars == <<audioRecord, recordingThread, isRecording, buffer, mainPc, thPc,
                 thRead, lateReads, raced, session, captured, lastClip, lastOp,
                 calledWhile, returned, initFailed, readFailed>>

Min(a, b) == IF a <= b THEN a ELSE b

EmptyBuffer == [t \in ThreadIds |-> 0]
RECURSIVE SumOver(_, _)
SumOver(f, S) == IF S = {} THEN 0
                 ELSE LET t == CHOOSE x \in S : TRUE IN f[t] + SumOver(f, S \ {t})
\* buffer.size
Size(b) == SumOver(b, ThreadIds)

InitCapture ==
    /\ audioRecord = "null"
    /\ recordingThread = "null"
    /\ isRecording = FALSE
    /\ buffer = EmptyBuffer
    /\ mainPc = "idle"
    /\ thPc = [t \in ThreadIds |-> "unborn"]
    /\ thRead = [t \in ThreadIds |-> 0]
    /\ lateReads = [t \in ThreadIds |-> 0]
    /\ raced = [t \in ThreadIds |-> FALSE]
    /\ session = "null"
    /\ captured = EmptyBuffer
    /\ lastClip = EmptyBuffer
    /\ lastOp = "none"
    /\ calledWhile = FALSE
    /\ returned = FALSE
    /\ initFailed = FALSE
    /\ readFailed = FALSE

(***************************************************************************)
(* Mel spectrogram (mel_spectrogram.cpp): state                            *)
(***************************************************************************)
N_FFT == 400
HOP_LENGTH == 160
N_MELS == 128
CHUNK_LENGTH == 30
N_SAMPLES == SAMPLE_RATE * CHUNK_LENGTH
N_FRAMES == N_SAMPLES \div HOP_LENGTH
PAD == N_FFT \div 2

\* The two nativeComputeMelSpectrogram bodies of the file: the one that pads
\* the centre by reflection and the one that pads with zeros at the end.
MelVariants == {"reflect", "zero"}
\* Lengths of the clips handed to compute().
AudioLens == {0, 1, PAD, PAD + 1, SAMPLE_RATE, N_SAMPLES - 1, N_SAMPLES,
              N_SAMPLES + 1, 2 * N_SAMPLES}

VARIABLES
    melPc,            \* "idle", "frames" (in the frame loop) or "returned"
    melVariant,       \* which body runs
    audioLen,         \* audioLen
    frame,            \* the loop variable frame
    silentFrames,     \* frames computed so far whose N_FFT inputs are all zero
    outOfBounds,      \* an index outside its array was used
    resultLen         \* length of the returned float array

melVars == <<melPc, melVariant, audioLen, frame, silentFrames, outOfBounds, resultLen>>

InitMel ==
    /\ melPc = "idle"
    /\ melVariant = "reflect"
    /\ audioLen = 0
    /\ frame = 0
    /\ silentFrames = 0
    /\ outOfBounds = FALSE
    /\ resultLen = 0

(***************************************************************************)
(* Mel spectrogram values: log10 mel energies and their normalisation,     *)
(* followed on a few cells of the matrix                                   *)
(***************************************************************************)
\* Cells of the N_MELS x N_FRAMES matrix that are followed.
Cells == {1, 2, 3}

\* fmaxf(sum, 1e-10f): the floor of a mel energy, as a power of ten.
FloorExp == -10

\* Mel energies: zero, or a power of ten with one of these exponents.
EnergyExps == {-12, -10, -9, -3, 0, 2}
Energies == {<<"zero", 0>>} \cup {<<"pow10", e>> : e \in EnergyExps}

VARIABLES
    valPc,            \* "idle", "logged" (after the frame loop) or "normalized"
    cellInput,        \* per cell: the N_FFT inputs of its frame, "zeros" or "signal"
    melSum,           \* per cell: sum, the mel energy
    melLog,           \* per cell: melSpec[...] after the frame loop (a log10)
    melOut4           \* per cell: 4 * the value returned for it

valueVars == <<valPc, cellInput, melSum, melLog, melOut4>>

InitValues ==
    /\ valPc = "idle"
    /\ cellInput = [c \in Cells |-> "zeros"]
    /\ melSum = [c \in Cells |-> <<"zero", 0>>]
    /\ melLog = [c \in Cells |-> 0]
    /\ melOut4 = [c \in Cells |-> 0]

(***************************************************************************)
(* WhisperTokenizer: state of a decode() call and of a byte round trip     *)
(***************************************************************************)
\* Longest token list handed to decode().
MaxIds == 3
\* Token IDs handed to decode(): three of the vocabulary sample, one that the
\* sample lacks, and three special ones.
DecodeTokens == {0, 72, 220, 50256, EOT, SOT, FIRST_TIMESTAMP}
\* Byte sequences written with the byte-to-unicode alphabet: every single
\* byte, and the sequences of at most MaxBytes bytes of ByteSamples.
MaxBytes == 2
ByteSamples == {0, 32, 65, 127, 173, 255}

VARIABLES
    tokPc,            \* "idle", "decoded" or "reversed"
    tokIds,           \* tokenIds of the last decode()
    tokText,          \* what it returned (code points)
    byteSeq,          \* a byte sequence written with the alphabet
    revBytes          \* the bytes the decoder's loop recovered from it

tokVars == <<tokPc, tokIds, tokText, byteSeq, revBytes>>

InitTok ==
    /\ tokPc = "idle"
    /\ tokIds = <<>>
    /\ tokText = <<>>
    /\ byteSeq = <<>>
    /\ revBytes = <<>>

(***************************************************************************)
(* ModelManager: state of an areModelsReady() call                         *)
(***************************************************************************)
VARIABLES
    readyResult,      \* what the last areModelsReady() returned, "none" before
    filesAtCall       \* the model files as they were when it was called

managerVars == <<readyResult, filesAtCall>>

InitManager ==
    /\ readyResult = "none"
    /\ filesAtCall = <<>>

(***************************************************************************)
(* WebSocket pairing (WSServer, auth.ts): state                            *)
(***************************************************************************)
MaxSessions == 2      \* sessions started in one behaviour
MaxMessages == 3      \* messages received on one connection
Conns == {"c1", "c2"}
Servers == 1..MaxSessions

\* sessionToken = null in auth.ts, and a JSON null in a message.
nullToken == <<"null", 0>>
\* A string that no generateToken() call returned.
wrongToken == <<"wrong", 0>>
\* crypto.randomBytes(32).toString('hex') of the n-th generateToken() call:
\* a fresh value each time.
randomToken(n) == <<"hex", n>>
AuthTokens == {randomToken(n) : n \in Servers} \cup {wrongToken, nullToken}

\* What data.toString() of a received frame can be: text JSON.parse rejects,
\* or a message object with its type (and token, for an auth message).
WsMessages ==
    {[parses |-> FALSE, type |-> "none", token |-> nullToken]}
    \cup {[parses |-> TRUE, type |-> "auth", token |-> t] : t \in AuthTokens}
    \cup {[parses |-> TRUE, type |-> ty, token |-> nullToken] :
              ty \in {"annotation", "file_select", "status"}}

VARIABLES
    sessionToken,         \* auth.ts: the module's token, nullToken when cleared
    wsServer,             \* startSession.ts: the WSServer instance, 0 = null
    sessions,             \* how many sessions were started
    authenticatedClient,  \* per WSServer instance: a connection, or "null"
    readyState,           \* per connection: "NONE" before it is accepted
    owner,                \* per connection: the instance that accepted it
    authenticated,        \* per connection: the handler's closure flag
    authTimeout,          \* per connection: "unset", "armed", "cleared", "fired"
    received,             \* per connection: messages handled so far
    firstMsg,             \* per connection: "none", "validAuth" or "other"
    authSeen,             \* per connection: an auth message carried the
                          \* session token of the moment it arrived
    emitted               \* per connection: events its messages raised

wsVars == <<sessionToken, wsServer, sessions, authenticatedClient, readyState, owner,
            authenticated, authTimeout, received, firstMsg, authSeen, emitted>>

InitWs ==
    /\ sessionToken = nullToken
    /\ wsServer = 0
    /\ sessions = 0
    /\ authenticatedClient = [g \in Servers |-> "null"]
    /\ readyState = [c \in Conns |-> "NONE"]
    /\ owner = [c \in Conns |-> 0]
    /\ authenticated = [c \in Conns |-> FALSE]
    /\ authTimeout = [c \in Conns |-> "unset"]
    /\ received = [c \in Conns |-> 0]
    /\ firstMsg = [c \in Conns |-> "none"]
    /\ authSeen = [c \in Conns |-> FALSE]
    /\ emitted = [c \in Conns |-> {}]

(***************************************************************************)
(* WhisperInference lifecycle (initialize again, release): state           *)
(***************************************************************************)
MaxLifecycleOps == 3   \* initialize() and release() calls in one behaviour

VARIABLES
    qnnProvider,      \* OrtProvider.QNN in getAvailableProviders(): "unknown"
                      \* until asked, then "present" or "missing"
    encoderMadeBy,    \* the initialize() that made encoderSession: "none",
                      \* "completed" or "threw"
    decoderMadeBy,    \* the same for decoderSession
    lastLifecycle,    \* "constructed", "initialized", "initThrew", "released"
    lifecycleOps      \* initialize() and release() calls so far

lifecycleVars == <<qnnProvider, encoderMadeBy, decoderMadeBy, lastLifecycle,
                   lifecycleOps>>

InitLifecycle ==
    /\ qnnProvider = "unknown"
    /\ encoderMadeBy = "none"
    /\ decoderMadeBy = "none"
    /\ lastLifecycle = "constructed"
    /\ lifecycleOps = 0

(***************************************************************************)
(* state.json on disk (writeState / readState of both processes): state    *)
(***************************************************************************)
MaxWrites == 2         \* writeState calls of one process in one behaviour
ChunksPerState == 2    \* write(2) calls that one JSON text takes
Writers == {"ext", "mcp"}
Inodes == 1 .. (1 + 2 * MaxWrites)

\* The JSON text of the v-th state that process w writes, as its chunks.
StateText(w, v) == [k \in 1 .. ChunksPerState |-> <<w, v, k>>]

VARIABLES
    inodeData,     \* per inode: the chunks the file holds
    stateName,     \* the inode the name state.json refers to, 0 = no such file
    tmpName,       \* the inode the name state.json.tmp refers to, 0 = none
    inodesUsed,    \* inodes created so far
    wrPc,          \* per process: "idle", "opened", "written", or "failed"
    wrFd,          \* per process: the inode its open descriptor refers to
    wrOff,         \* per process: chunks written through the descriptor
    wrVer,         \* per process: number of the state it writes
    observed,      \* what the last readFileSync of state.json returned
    reads          \* readFileSync calls so far

fsVars == <<inodeData, stateName, tmpName, inodesUsed, wrPc, wrFd, wrOff, wrVer,
            observed, reads>>

InitFs ==
    /\ inodeData = [i \in Inodes |-> IF i = 1 THEN StateText("ext", 0) ELSE <<>>]
    /\ stateName = 1
    /\ tmpName = 0
    /\ inodesUsed = 1
    /\ wrPc = [w \in Writers |-> "idle"]
    /\ wrFd = [w \in Writers |-> 0]
    /\ wrOff = [w \in Writers |-> 0]
    /\ wrVer = [w \in Writers |-> 0]
    /\ observed = StateText("ext", 0)
    /\ reads = 0

(***************************************************************************)
(* Shared state between the extension and the MCP server: state            *)
(***************************************************************************)
MaxAnnotations == 2    \* annotations the phone sends in one behaviour
MaxCodeUpdates == 1    \* editor changes in one behaviour
MaxToolCalls == 3      \* MCP tool calls in one behaviour
MaxCommands == 1       \* of them, send_code_to_phone calls

\* getDefaultState(sessionId): the state every extension handler starts
\* from.  currentCode 0 is null; a missing pendingAnnotations key reads as the
\* empty list.
DefaultState ==
    [exists |-> TRUE, sessionActive |-> FALSE, currentCode |-> 0,
     pendingAnnotations |-> <<>>, phoneConnected |-> FALSE, commandQueue |-> <<>>]

\* No state.json.
NoStateFile == [DefaultState EXCEPT !.exists = FALSE]

NoTool == [tool |-> "none", stale |-> FALSE, answer |-> "none"]

VARIABLES
    stateFile,         \* the state stored in state.json
    extAlive,          \* the extension host process runs
    extSession,        \* "none", "active" (wsServer set) or "stopped"
    currentCodeState,  \* startSession.ts: last captured code, 0 = null
    phoneIsConnected,  \* wsServer.isPhoneConnected()
    extPc,             \* where the extension's handler in progress stands
    extLocal,          \* the state object that handler will write
    pollLocal,         \* the state object the command poll will write
    annotationsIn,          \* annotations received from the phone
    stored,            \* annotations whose handler has written the state
    codeUpdates,       \* editor changes so far
    mcpPc,             \* where the MCP tool in progress stands
    mcpLocal,          \* the state object that tool will write
    mcpCmd,            \* id of the command enqueueCommand waits for, 0 = none
    toolCalls,         \* tool calls so far
    commands,          \* commands enqueued so far
    lastTool,          \* the last tool call: tool, stale state found, answer
    returnedTimes      \* per annotation: how many tool calls returned it

sharedVars == <<stateFile, extAlive, extSession, currentCodeState, phoneIsConnected,
                extPc, extLocal, pollLocal, annotationsIn, stored, codeUpdates, mcpPc,
                mcpLocal, mcpCmd, toolCalls, commands, lastTool, returnedTimes>>

InitShared ==
    /\ stateFile = NoStateFile
    /\ extAlive = TRUE
    /\ extSession = "none"
    /\ currentCodeState = 0
    /\ phoneIsConnected = FALSE
    /\ extPc = "idle"
    /\ extLocal = NoStateFile
    /\ pollLocal = NoStateFile
    /\ annotationsIn = 0
    /\ stored = {}
    /\ codeUpdates = 0
    /\ mcpPc = "idle"
    /\ mcpLocal = NoStateFile
    /\ mcpCmd = 0
    /\ toolCalls = 0
    /\ commands = 0
    /\ lastTool = NoTool
    /\ returnedTimes = [a \in 1 .. MaxAnnotations |-> 0]

(***************************************************************************)
(* Feature extractor, power spectrum and mel filterbank: state             *)
(***************************************************************************)
FFT_SIZE == 512
FFT_OUT == N_FFT \div 2 + 1

\* The clips of the model: a steady tone of f Hz whose frequency is the
\* centre of a bin of the N_FFT-point and of the FFT_SIZE-point transform.
Tones ==
    {f \in 0 .. (SAMPLE_RATE \div 2) :
        (f * N_FFT) % SAMPLE_RATE = 0 /\ (f * FFT_SIZE) % SAMPLE_RATE = 0}

VARIABLES
    spectrumPc,   \* "idle", "magnitudes" (the loop over k) or "done"
    tone,         \* frequency of the clip's tone, Hz
    magK,         \* k of the magnitudes loop
    peakBin,      \* the k whose magnitudes[k] holds the tone's power, -1 = none
    melHz         \* the frequency of the filterbank column that weighs it

spectrumVars == <<spectrumPc, tone, magK, peakBin, melHz>>

InitSpectrum ==
    /\ spectrumPc = "idle"
    /\ tone = 0
    /\ magK = 0
    /\ peakBin = -1
    /\ melHz = -1

\* The state of the components added after the feature extractor's shape.
extraVars == <<valueVars, tokVars, managerVars, wsVars, lifecycleVars, fsVars, sharedVars, spectrumVars>>
InitExtra == InitValues /\ InitTok /\ InitManager /\ InitWs /\ InitLifecycle /\ InitFs /\ InitShared /\ InitSpectrum

engineVars == <<env, encoderSession, decoderSession>>
callVars == <<pc, live, selfCaches, allTokens, generatedTokens, position, step, brk,
              inputs, failure, result, lastOut, decoderCalls, encoderCalls>>
\* What no step of WhisperInference changes.
otherVars == <<tailToken, files, captureVars, melVars, extraVars>>
vars == <<env, encoderSession, decoderSession, pc, live, selfCaches, allTokens,
          generatedTokens, position, step, brk, inputs, failure, result, lastOut,
          decoderCalls, encoderCalls, otherVars>>

promptTokens == <<SOT, EN, TRANSCRIBE, NO_TIMESTAMPS>>

\* A tensor handle: its input/output name, its layer, and the generation
\* (step) it belongs to.
Tensor(kind, layer, gen) == [kind |-> kind, layer |-> layer, gen |-> gen]

melTensor == Tensor("input_features", 0, 0)

\* encoderResults: the 8 cross-attention tensors of the encoder pass.
CrossCaches ==
    {Tensor("k_cache_cross", l, 0) : l \in Layers} \cup
    {Tensor("v_cache_cross", l, 0) : l \in Layers}

\* Generation g of the self-attention cache: 0 is the zero-filled one made by
\* createZeroFp16Tensor, g > 0 the output of decoder step g - 1.
SelfCaches(g) ==
    {Tensor("k_cache_self", l, g) : l \in Layers} \cup
    {Tensor("v_cache_self", l, g) : l \in Layers}

\* The three tensors created for step s.
StepInputs(s) ==
    {Tensor("input_ids", 0, s), Tensor("position_ids", 0, s), Tensor("attention_mask", 0, s)}

\* decoderResults of step s: the logits and the next cache generation.
DecoderResults(s) == {Tensor("logits", 0, s)} \cup SelfCaches(s + 1)

NoInputs == [input_ids |-> -1, position_ids |-> -1, attention_mask |-> <<>>,
             self_in |-> -1, cross |-> {}]
NoResult == [kind |-> "none", text |-> <<>>, tokens |-> <<>>]
NoOut == [token |-> -1, step |-> -1]

createAttentionMask(currentPos) ==
    [i \in 0 .. (ATTN_MASK_SIZE - 1) |-> IF i <= currentPos THEN zeroFp16 ELSE negInfFp16]

\* The loop written with an inclusive range (0..MAX_TOKENS + promptTokens.size).
LoopLimitInclusive == MAX_TOKENS + Len(promptTokens) + 1

\* for (step in 0 until MAX_TOKENS + promptTokens.size)
LoopLimit == MAX_TOKENS + Len(promptTokens)

\* The decoder's possible argmax at step s of caller c.
DecoderAnswers(c, s) ==
    IF s < Len(promptTokens) - 1 + FreeSteps THEN TokenChoices ELSE {tailToken[c], EOT}

(***************************************************************************)
(* ModelManager                                                            *)
(***************************************************************************)
\* encoderDir / decoderDir, and the two files expected in each.
ModelDirs == {"encoder", "decoder"}
ModelFiles == {<<d, f>> : d \in ModelDirs, f \in {"model.onnx", "model.bin"}}

\* A file is absent, present with length 0, or present with length > 0.
FileStates == {"absent", "empty", "nonempty"}

\* The check written with exists() alone.
areModelsReadyExists == \A f \in ModelFiles : files[f] # "absent"

areModelsReady == \A f \in ModelFiles : files[f] # "absent" /\ files[f] = "nonempty"

\* env.createSession(path, opts) of the runtime: it cannot load a model whose
\* graph file or compiled binary is absent or empty (and may fail otherwise).
createSessionCanSucceed(dir) ==
    files[<<dir, "model.onnx">>] = "nonempty" /\ files[<<dir, "model.bin">>] = "nonempty"

InitFiles == files \in [ModelFiles -> FileStates]

(***************************************************************************)
(* Initial state: a constructed, not yet initialized WhisperInference      *)
(***************************************************************************)
InitEngine ==
    /\ env = FALSE
    /\ encoderSession = FALSE
    /\ decoderSession = FALSE

InitCalls ==
    /\ pc = [c \in Callers |-> "Idle"]
    /\ live = [c \in Callers |-> {}]
    /\ selfCaches = [c \in Callers |-> 0]
    /\ allTokens = [c \in Callers |-> <<>>]
    /\ generatedTokens = [c \in Callers |-> <<>>]
    /\ position = [c \in Callers |-> 0]
    /\ step = [c \in Callers |-> 0]
    /\ brk = [c \in Callers |-> FALSE]
    /\ inputs = [c \in Callers |-> NoInputs]
    /\ failure = [c \in Callers |-> "none"]
    /\ result = [c \in Callers |-> NoResult]
    /\ lastOut = [c \in Callers |-> NoOut]
    /\ decoderCalls = [c \in Callers |-> 0]
    /\ encoderCalls = [c \in Callers |-> 0]

Init ==
    /\ InitEngine
    /\ InitCalls
    /\ tailToken \in [Callers -> TailChoices]
    /\ InitFiles
    /\ InitCapture
    /\ InitMel
    /\ InitExtra

(***************************************************************************)
(* WhisperInference.initialize                                             *)
(***************************************************************************)
\* outcome: "ok", "noQnn" (the provider check throws), "encoderFail" or
\* "decoderFail" (createSession throws).
Initialize(outcome) ==
    /\ ~env
    /\ outcome \in {"ok", "decoderFail"} => createSessionCanSucceed("encoder")
    /\ outcome = "ok" => createSessionCanSucceed("decoder")
    /\ env' = TRUE
    /\ encoderSession' = (outcome \in {"ok", "decoderFail"})
    /\ decoderSession' = (outcome = "ok")
    /\ UNCHANGED <<callVars, otherVars>>

(***************************************************************************)
(* WhisperInference.transcribe                                             *)
(***************************************************************************)
\* Entry: the three null checks, the mel tensor, the call of encoder.run.
TranscribeCall(c) ==
    /\ pc[c] = "Idle"
    /\ IF env /\ encoderSession /\ decoderSession
       THEN /\ live' = [live EXCEPT ![c] = @ \cup {melTensor}]
            /\ encoderCalls' = [encoderCalls EXCEPT ![c] = @ + 1]
            /\ pc' = [pc EXCEPT ![c] = "EncoderRunning"]
            /\ UNCHANGED <<failure, result>>
       ELSE /\ failure' = [failure EXCEPT ![c] = "IllegalState"]
            /\ result' = [result EXCEPT ![c] = [NoResult EXCEPT !.kind = "error"]]
            /\ pc' = [pc EXCEPT ![c] = "Failed"]
            /\ UNCHANGED <<live, encoderCalls>>
    /\ UNCHANGED <<engineVars, selfCaches, allTokens, generatedTokens, position, step,
                   brk, inputs, lastOut, decoderCalls, otherVars>>

\* encoder.run returned: collect the cross caches, make the zero self caches,
\* seed the prompt.
EncoderReturn(c) ==
    /\ pc[c] = "EncoderRunning"
    /\ live' = [live EXCEPT ![c] = @ \cup CrossCaches \cup SelfCaches(0)]
    /\ selfCaches' = [selfCaches EXCEPT ![c] = 0]
    /\ generatedTokens' = [generatedTokens EXCEPT ![c] = <<>>]
    /\ position' = [position EXCEPT ![c] = 0]
    /\ allTokens' = [allTokens EXCEPT ![c] = promptTokens]
    /\ step' = [step EXCEPT ![c] = 0]
    /\ pc' = [pc EXCEPT ![c] = "Decoding"]
    /\ UNCHANGED <<engineVars, brk, inputs, failure, result, lastOut, decoderCalls,
                   encoderCalls, otherVars>>

\* encoder.run threw: the exception leaves transcribe (no try around it).
EncoderFail(c) ==
    /\ pc[c] = "EncoderRunning"
    /\ failure' = [failure EXCEPT ![c] = "Encoder"]
    /\ result' = [result EXCEPT ![c] = [NoResult EXCEPT !.kind = "error"]]
    /\ pc' = [pc EXCEPT ![c] = "Failed"]
    /\ UNCHANGED <<engineVars, live, selfCaches, allTokens, generatedTokens, position,
                   step, brk, inputs, lastOut, decoderCalls, encoderCalls, otherVars>>

\* Loop head to decoder.run: the step's inputs are built and the decoder is invoked.
DecoderInvoke(c) ==
    /\ pc[c] = "Decoding"
    /\ ~brk[c]
    /\ step[c] < LoopLimit
    /\ step[c] < Len(allTokens[c])
    /\ inputs' = [inputs EXCEPT ![c] =
                    [input_ids      |-> allTokens[c][step[c] + 1],
                     position_ids   |-> position[c],
                     attention_mask |-> createAttentionMask(position[c]),
                     self_in        |-> selfCaches[c],
                     cross          |-> CrossCaches \cap live[c]]]
    /\ live' = [live EXCEPT ![c] = @ \cup StepInputs(step[c])]
    /\ decoderCalls' = [decoderCalls EXCEPT ![c] = @ + 1]
    /\ pc' = [pc EXCEPT ![c] = "DecoderRunning"]
    /\ UNCHANGED <<engineVars, selfCaches, allTokens, generatedTokens, position, step,
                   brk, failure, result, lastOut, encoderCalls, otherVars>>

\* processDecoderStep with the timestamp test written nextToken > FIRST_TIMESTAMP.
processDecoderStepStrictTimestamp(stp, nextToken, generated, all) ==
    IF stp >= Len(promptTokens) - 1
    THEN IF nextToken = EOT
         THEN [generatedTokens |-> generated, allTokens |-> Append(all, EOT)]
         ELSE IF nextToken > FIRST_TIMESTAMP
              THEN [generatedTokens |-> generated, allTokens |-> Append(all, nextToken)]
              ELSE [generatedTokens |-> Append(generated, nextToken),
                    allTokens |-> Append(all, nextToken)]
    ELSE [generatedTokens |-> generated, allTokens |-> all]

\* processDecoderStep with the prompt phase one step short (promptTokens.size - 2).
processDecoderStepShortPrompt(stp, nextToken, generated, all) ==
    IF stp >= Len(promptTokens) - 2
    THEN IF nextToken = EOT
         THEN [generatedTokens |-> generated, allTokens |-> Append(all, EOT)]
         ELSE IF nextToken >= FIRST_TIMESTAMP
              THEN [generatedTokens |-> generated, allTokens |-> Append(all, nextToken)]
              ELSE [generatedTokens |-> Append(generated, nextToken),
                    allTokens |-> Append(all, nextToken)]
    ELSE [generatedTokens |-> generated, allTokens |-> all]

\* processDecoderStep, token part: what the step does to the two token lists.
processDecoderStep(stp, nextToken, generated, all) ==
    IF stp >= Len(promptTokens) - 1
    THEN IF nextToken = EOT
         THEN [generatedTokens |-> generated, allTokens |-> Append(all, EOT)]
         ELSE IF nextToken >= FIRST_TIMESTAMP
              THEN [generatedTokens |-> generated, allTokens |-> Append(all, nextToken)]
              ELSE [generatedTokens |-> Append(generated, nextToken),
                    allTokens |-> Append(all, nextToken)]
    ELSE [generatedTokens |-> generated, allTokens |-> all]

\* TensorsAfterStep closing encoderResults together with the old caches.
TensorsAfterStepCloseCross(l, stp, oldGen) ==
    (((l \cup DecoderResults(stp)) \ StepInputs(stp)) \ SelfCaches(oldGen)) \ CrossCaches

\* TensorsAfterStep without the two forEach { it.close() } on the old caches.
TensorsAfterStepKeepOld(l, stp, oldGen) ==
    (l \cup DecoderResults(stp)) \ StepInputs(stp)

\* processDecoderStep, tensor part: the step's inputs are closed, the new
\* caches are taken from decoderResults, the old caches are closed.
TensorsAfterStep(l, stp, oldGen) ==
    ((l \cup DecoderResults(stp)) \ StepInputs(stp)) \ SelfCaches(oldGen)

\* position++ placed after the prompt-phase continue.
NextPositionAfterContinue(p, stp) == IF stp < Len(promptTokens) - 1 THEN p ELSE p + 1

\* position++
NextPosition(p, stp) == p + 1

\* The EOT check comparing against the wrong end of the list.
EotWasFirst(all) == Len(all) > Len(promptTokens) /\ all[1] = EOT

\* The check after the try block: EOT was the last token added.
EotWasLast(all) == Len(all) > Len(promptTokens) /\ all[Len(all)] = EOT

\* decoder.run returned and its outputs were read.
DecoderReturn(c, nextToken) ==
    /\ pc[c] = "DecoderRunning"
    /\ nextToken \in DecoderAnswers(c, step[c])
    /\ LET toks == processDecoderStep(step[c], nextToken, generatedTokens[c], allTokens[c])
           stop == step[c] >= Len(promptTokens) - 1 /\ EotWasLast(toks.allTokens)
       IN  /\ generatedTokens' = [generatedTokens EXCEPT ![c] = toks.generatedTokens]
           /\ allTokens' = [allTokens EXCEPT ![c] = toks.allTokens]
           /\ brk' = [brk EXCEPT ![c] = stop]
           /\ step' = [step EXCEPT ![c] = IF stop THEN @ ELSE @ + 1]
    /\ live' = [live EXCEPT ![c] = TensorsAfterStep(@, step[c], selfCaches[c])]
    /\ selfCaches' = [selfCaches EXCEPT ![c] = step[c] + 1]
    /\ position' = [position EXCEPT ![c] = NextPosition(@, step[c])]
    /\ lastOut' = [lastOut EXCEPT ![c] = [token |-> nextToken, step |-> step[c]]]
    /\ inputs' = [inputs EXCEPT ![c] = NoInputs]
    /\ pc' = [pc EXCEPT ![c] = "Decoding"]
    /\ UNCHANGED <<engineVars, failure, result, decoderCalls, encoderCalls, otherVars>>

\* What the catch block leaves live: mode "run" is decoder.run throwing,
\* mode "extract" is a throw while its outputs are read (decoderResults is
\* never closed).
TensorsAfterCatch(l, stp, mode) ==
    (l \cup (IF mode = "extract" THEN DecoderResults(stp) ELSE {})) \ StepInputs(stp)

\* catch (e: Exception) { ...close the step's inputs...; break }
DecoderFail(c, mode) ==
    /\ pc[c] = "DecoderRunning"
    /\ live' = [live EXCEPT ![c] = TensorsAfterCatch(@, step[c], mode)]
    /\ failure' = [failure EXCEPT ![c] = mode]
    /\ brk' = [brk EXCEPT ![c] = TRUE]
    /\ inputs' = [inputs EXCEPT ![c] = NoInputs]
    /\ pc' = [pc EXCEPT ![c] = "Decoding"]
    /\ UNCHANGED <<engineVars, selfCaches, allTokens, generatedTokens, position, step,
                   result, lastOut, decoderCalls, encoderCalls, otherVars>>

\* The cleanup after the loop.
TensorsAfterCleanup(l, gen) == l \ (SelfCaches(gen) \cup {melTensor} \cup CrossCaches)

\* What transcribe gives its caller once the loop is left.
TranscribeResult(generated, fail) ==
    [kind |-> "text", text |-> decode(generated), tokens |-> generated]

\* The loop is over: a break, the range exhausted, or step >= allTokens.size.
LoopLeft(c) == brk[c] \/ step[c] >= LoopLimit \/ step[c] >= Len(allTokens[c])

\* The loop is left: cleanup, tokenizer.decode, return.
Finish(c) ==
    /\ pc[c] = "Decoding"
    /\ LoopLeft(c)
    /\ live' = [live EXCEPT ![c] = TensorsAfterCleanup(@, selfCaches[c])]
    /\ result' = [result EXCEPT ![c] = TranscribeResult(generatedTokens[c], failure[c])]
    /\ pc' = [pc EXCEPT ![c] = "Done"]
    /\ UNCHANGED <<engineVars, selfCaches, allTokens, generatedTokens, position, step,
                   brk, inputs, failure, lastOut, decoderCalls, encoderCalls, otherVars>>

\* The steps of a call up to the end of its loop.
CallSteps(c) ==
    \/ TranscribeCall(c)
    \/ EncoderReturn(c)
    \/ EncoderFail(c)
    \/ DecoderInvoke(c)
    \/ \E t \in TokenChoices \cup TailChoices : DecoderReturn(c, t)
    \/ \E mode \in {"run", "extract"} : DecoderFail(c, mode)

CallNext(c) == CallSteps(c) \/ Finish(c)

InitializeNext == \E outcome \in {"ok", "noQnn", "encoderFail", "decoderFail"} : Initialize(outcome)

(***************************************************************************)
(* Spec: the instance used as the spec requires, by one caller at a time.  *)
(***************************************************************************)
Next == InitializeNext \/ CallNext(1)

Spec == Init /\ [][Next]_vars

(***************************************************************************)
(* ConcSpec: two callers use the instance with nothing between them (the   *)
(* class takes no lock).  The decoder ends every call with EOT right after *)
(* the free steps.                                                         *)
(***************************************************************************)
InitConc ==
    /\ InitEngine
    /\ InitCalls
    /\ tailToken = [c \in Callers |-> EOT]
    /\ InitFiles
    /\ InitCapture
    /\ InitMel
    /\ InitExtra

NextConc == InitializeNext \/ \E c \in Callers : CallNext(c)

ConcSpec == InitConc /\ [][NextConc]_vars

(***************************************************************************)
(* AudioCapture: start(), stop(), release() and the recording thread       *)
(***************************************************************************)
\* What no step of AudioCapture changes.
whisperVars == <<engineVars, callVars, tailToken, files, melVars, extraVars>>


\* audioRecord?.read(chunk, 0, chunk.size, READ_BLOCKING) ?: 0.  A recording
\* recorder fills the chunk or reports an error code; a stopped one hands out
\* what it still had; with no recorder the elvis branch gives 0.
MicRead(rec) ==
    CASE rec = "recording" -> {chunkSize, -1}
      [] rec = "stopped" -> {0, ShortRead}
      [] OTHER -> {0}

toAddUnbounded(read, remaining) == read
\* val toAdd = minOf(read, remaining)
toAdd(read, remaining) == Min(read, remaining)

releaseBufferKept(b) == b
\* release(): buffer.clear()
releaseBuffer(b) == EmptyBuffer

\* Threads that are not running, so that start() can create one of them.
FreeThreads == {t \in ThreadIds : thPc[t] \in {"unborn", "done"}}
Alive(t) == thPc[t] \in {"loop", "append"}

\* A call on the object begins: what the previous call left for its caller
\* is gone.
CallBegins ==
    /\ returned' = FALSE
    /\ lastClip' = EmptyBuffer

\* A call on the object returns to its caller.
Returns(op) ==
    /\ mainPc' = "idle"
    /\ lastOp' = op
    /\ returned' = TRUE

\* An unlocked buffer.clear() runs: the threads inside their append are hit.
RacedBy == [t \in ThreadIds |-> raced[t] \/ thPc[t] = "append"]

\* start(), line 148: if (isRecording.get()) return
StartCheck ==
    /\ mainPc = "idle"
    /\ isRecording \/ FreeThreads # {}
    /\ lastClip' = EmptyBuffer
    /\ calledWhile' = FALSE
    /\ IF isRecording
         THEN Returns("start") /\ UNCHANGED captured
         ELSE /\ mainPc' = "start_clear"
              /\ returned' = FALSE
              /\ captured' = EmptyBuffer
              /\ UNCHANGED lastOp
    /\ UNCHANGED <<audioRecord, recordingThread, isRecording, buffer, thPc, thRead,
                   lateReads, raced, session, initFailed, readFailed, whisperVars>>

\* start(), line 150: buffer.clear(), outside synchronized(buffer)
StartClear ==
    /\ mainPc = "start_clear"
    /\ buffer' = EmptyBuffer
    /\ raced' = RacedBy
    /\ mainPc' = "start_init"
    /\ UNCHANGED <<audioRecord, recordingThread, isRecording, thPc, thRead, lateReads,
                   session, captured, lastClip, lastOp, calledWhile, returned,
                   initFailed, readFailed, whisperVars>>

\* start(), lines 152-195: the recorder is created; if it is not initialized
\* it is released and start() returns, otherwise recording and the thread
\* are started.
StartInit(initialized) ==
    /\ mainPc = "start_init"
    /\ Returns("start")
    /\ initFailed' = ~initialized
    /\ readFailed' = FALSE
    /\ IF initialized
         THEN LET t == CHOOSE x \in FreeThreads : TRUE IN
              /\ FreeThreads # {}
              /\ audioRecord' = "recording"
              /\ isRecording' = TRUE
              /\ recordingThread' = t
              /\ thPc' = [thPc EXCEPT ![t] = "loop"]
              /\ thRead' = [thRead EXCEPT ![t] = 0]
              /\ lateReads' = [lateReads EXCEPT ![t] = 0]
              /\ raced' = [raced EXCEPT ![t] = FALSE]
              /\ session' = t
         ELSE /\ audioRecord' = "null"
              /\ UNCHANGED <<isRecording, recordingThread, thPc, thRead, lateReads,
                             raced, session>>
    /\ UNCHANGED <<buffer, captured, lastClip, calledWhile, whisperVars>>

\* stop(), lines 202-215: isRecording.set(false), then the recorder is
\* stopped if it is recording.
StopBegin ==
    /\ mainPc = "idle"
    /\ CallBegins
    /\ calledWhile' = isRecording
    /\ isRecording' = FALSE
    /\ audioRecord' = IF audioRecord = "recording" THEN "stopped" ELSE audioRecord
    /\ captured' = IF session = "null" THEN EmptyBuffer ELSE captured
    /\ mainPc' = "stop_join"
    /\ UNCHANGED <<recordingThread, buffer, thPc, thRead, lateReads, raced, session,
                   lastOp, initFailed, readFailed, whisperVars>>

\* recordingThread?.join(millis) returns when the thread has finished, or
\* when the time is over while the thread still runs.
Join(timedOut) ==
    IF recordingThread = "null" \/ ~Alive(recordingThread) THEN ~timedOut ELSE timedOut

\* stop(), lines 217-234: join(3000), recordingThread = null, the recorder
\* is released, audioRecord = null.
StopJoin(timedOut) ==
    /\ mainPc = "stop_join"
    /\ Join(timedOut)
    /\ recordingThread' = "null"
    /\ audioRecord' = "null"
    /\ mainPc' = "stop_copy"
    /\ UNCHANGED <<isRecording, buffer, thPc, thRead, lateReads, raced, session,
                   captured, lastClip, lastOp, calledWhile, returned,
                   initFailed, readFailed, whisperVars>>

\* stop(), lines 236-247: under synchronized(buffer) the buffer is copied
\* into the result and cleared; the result is returned.
StopCopy ==
    /\ mainPc = "stop_copy"
    /\ lastClip' = buffer
    /\ buffer' = EmptyBuffer
    /\ session' = "null"
    /\ Returns("stop")
    /\ UNCHANGED <<audioRecord, recordingThread, isRecording, thPc, thRead, lateReads,
                   raced, captured, calledWhile, initFailed, readFailed, whisperVars>>

\* release(), line 254: isRecording.set(false)
ReleaseBegin ==
    /\ mainPc = "idle"
    /\ CallBegins
    /\ calledWhile' = isRecording
    /\ isRecording' = FALSE
    /\ captured' = IF session = "null" THEN EmptyBuffer ELSE captured
    /\ mainPc' = "release_join"
    /\ UNCHANGED <<audioRecord, recordingThread, buffer, thPc, thRead, lateReads,
                   raced, session, lastOp, initFailed, readFailed, whisperVars>>

\* release(), lines 255-260: join(1000), recordingThread = null, the
\* recorder is released, audioRecord = null.
ReleaseJoin(timedOut) ==
    /\ mainPc = "release_join"
    /\ Join(timedOut)
    /\ recordingThread' = "null"
    /\ audioRecord' = "null"
    /\ mainPc' = "release_clear"
    /\ UNCHANGED <<isRecording, buffer, thPc, thRead, lateReads, raced, session,
                   captured, lastClip, lastOp, calledWhile, returned,
                   initFailed, readFailed, whisperVars>>

\* release(), line 261: buffer.clear(), outside synchronized(buffer)
ReleaseClear ==
    /\ mainPc = "release_clear"
    /\ buffer' = releaseBuffer(buffer)
    /\ raced' = RacedBy
    /\ session' = "null"
    /\ Returns("release")
    /\ UNCHANGED <<audioRecord, recordingThread, isRecording, thPc, thRead, lateReads,
                   captured, lastClip, calledWhile, initFailed, readFailed, whisperVars>>

\* Recording thread, lines 178-180: the loop condition, then the blocking
\* read.  A read that gives 0 or an error goes round the loop.
LoopRead(t, read) ==
    /\ thPc[t] = "loop"
    /\ returned' = FALSE
    /\ IF isRecording /\ Size(buffer) < MAX_SAMPLES
         THEN /\ read \in MicRead(audioRecord)
              /\ t = recordingThread \/ lateReads[t] < MaxLateReads
              /\ lateReads' = [lateReads EXCEPT ![t] = IF t = recordingThread THEN @ ELSE @ + 1]
              /\ thPc' = [thPc EXCEPT ![t] = IF read > 0 THEN "append" ELSE "loop"]
              /\ thRead' = [thRead EXCEPT ![t] = IF read > 0 THEN read ELSE 0]
              /\ readFailed' = (readFailed \/ (read < 0 /\ t = session))
         ELSE /\ read = 0
              /\ thPc' = [thPc EXCEPT ![t] = "done"]
              /\ UNCHANGED <<thRead, lateReads, readFailed>>
    /\ UNCHANGED <<audioRecord, recordingThread, isRecording, buffer, mainPc, raced,
                   session, captured, lastClip, lastOp, calledWhile,
                   initFailed, whisperVars>>

\* What an append leaves in the buffer: toAdd samples, or fewer of them when
\* an unlocked clear() ran in the middle of it.
Appended(t, n) == IF raced[t] THEN {n, n \div 2} ELSE {n}

\* Recording thread, lines 181-187: under synchronized(buffer) the first
\* toAdd samples of the chunk are added.
AppendChunk(t) ==
    /\ thPc[t] = "append"
    /\ returned' = FALSE
    /\ \E k \in Appended(t, toAdd(thRead[t], MAX_SAMPLES - Size(buffer))) :
          /\ buffer' = [buffer EXCEPT ![t] = @ + k]
          /\ captured' = IF t = session THEN [captured EXCEPT ![t] = @ + k] ELSE captured
    /\ thPc' = [thPc EXCEPT ![t] = "loop"]
    /\ thRead' = [thRead EXCEPT ![t] = 0]
    /\ raced' = [raced EXCEPT ![t] = FALSE]
    /\ UNCHANGED <<audioRecord, recordingThread, isRecording, mainPc, lateReads,
                   session, lastClip, lastOp, calledWhile, initFailed,
                   readFailed, whisperVars>>

ReadValues == {chunkSize, ShortRead, 0, -1}

CaptureThreadNext(t) == (\E read \in ReadValues : LoopRead(t, read)) \/ AppendChunk(t)

\* The buffer access the caller of start / stop / release performs next:
\* start()'s and release()'s buffer.clear() are outside synchronized(buffer),
\* stop()'s copy and clear are inside.
MainAccess ==
    CASE mainPc = "start_clear" -> "unlocked write"
      [] mainPc = "release_clear" -> "unlocked write"
      [] mainPc = "stop_copy" -> "locked write"
      [] OTHER -> "none"

\* The buffer access a recording thread performs next: buffer.size in the
\* loop condition is outside synchronized(buffer), the append inside.
ThreadAccess(t) ==
    CASE thPc[t] = "loop" -> "unlocked read"
      [] thPc[t] = "append" -> "locked write"
      [] OTHER -> "none"

CaptureInit ==
    /\ InitCapture
    /\ InitMel
    /\ InitExtra
    /\ InitEngine
    /\ InitCalls
    /\ tailToken = [c \in Callers |-> EOT]
    /\ files = [f \in ModelFiles |-> "nonempty"]

CaptureNext ==
    \/ StartCheck
    \/ StartClear
    \/ \E initialized \in BOOLEAN : StartInit(initialized)
    \/ StopBegin
    \/ \E timedOut \in BOOLEAN : StopJoin(timedOut)
    \/ StopCopy
    \/ ReleaseBegin
    \/ \E timedOut \in BOOLEAN : ReleaseJoin(timedOut)
    \/ ReleaseClear
    \/ \E t \in ThreadIds : CaptureThreadNext(t)

CaptureSpec == CaptureInit /\ [][CaptureNext]_vars

(***************************************************************************)
(* Mel spectrogram: nativeComputeMelSpectrogram                            *)
(***************************************************************************)
\* What no step of the feature extractor changes.
nonMelVars == <<engineVars, callVars, tailToken, files, captureVars, extraVars>>

copyLenAll(len) == len
copyLenPadded(len) == Min(len, N_SAMPLES + N_FFT)
\* int copyLen = std::min((int)audioLen, N_SAMPLES)
copyLen(len) == Min(len, N_SAMPLES)

\* Size of the array the clip is copied into: raw, or padded itself.
copyCapacity(v) == IF v = "reflect" THEN N_SAMPLES ELSE N_SAMPLES + N_FFT

\* The frames taken from an array of N_SAMPLES elements, without padding.
paddedLenUnpadded(v) == N_SAMPLES

\* paddedLen, or PADDED_SIZE
paddedLen(v) == IF v = "reflect" THEN N_SAMPLES + 2 * PAD ELSE N_SAMPLES + N_FFT

totalFrames(v) == (paddedLen(v) - N_FFT) \div HOP_LENGTH + 1

\* The bound of the frame loop: outputFrames, or N_FRAMES.
outputFrames(v) == IF v = "reflect" THEN Min(totalFrames(v) - 1, N_FRAMES) ELSE N_FRAMES

\* The reflection written so that it repeats the edge sample.
paddedSourceEdge(v, p) ==
    IF v = "reflect"
      THEN IF p < PAD THEN PAD - 1 - p
           ELSE IF p < N_SAMPLES + PAD THEN p - PAD
           ELSE N_SAMPLES - 1 - (p - N_SAMPLES - PAD)
      ELSE p

\* The index of the clip from which padded[p] was filled: the reflections
\* and the copy of the centre, or the plain copy.
paddedSource(v, p) ==
    IF v = "reflect"
      THEN IF p < PAD THEN PAD - p
           ELSE IF p < N_SAMPLES + PAD THEN p - PAD
           ELSE N_SAMPLES - 2 - (p - N_SAMPLES - PAD)
      ELSE p

\* padded[p] is one of the zeros the arrays were created with, not a sample.
paddedIsZero(v, len, p) == paddedSource(v, p) >= copyLen(len)

\* padded[p] when the clip has len samples, sample j of the clip written
\* <<"sample", j>>: the arrays start as zeros and only copyLen samples are
\* copied.
paddedValue(v, len, p) ==
    IF paddedSource(v, p) >= copyLen(len) THEN <<"zero", 0>>
    ELSE <<"sample", paddedSource(v, p)>>

\* The N_FFT inputs of the frame that begins at start.
frameInputs(v, len, start) ==
    [i \in 0 .. (N_FFT - 1) |-> paddedValue(v, len, start + i)]

frameIsSilent(v, len, start) ==
    \A i \in 0 .. (N_FFT - 1) : paddedIsZero(v, len, start + i)

\* The call, up to the frame loop: the clip is copied, the signal is padded.
MelCompute(v, len) ==
    /\ melPc \in {"idle", "returned"}
    /\ melPc' = "frames"
    /\ melVariant' = v
    /\ audioLen' = len
    /\ frame' = 0
    /\ silentFrames' = 0
    /\ resultLen' = 0
    /\ outOfBounds' = \/ copyLen(len) > copyCapacity(v)
                      \/ copyLen(len) > len
                      \/ \E p \in {0, paddedLen(v) - 1} :
                            paddedSource(v, p) \notin 0 .. (copyCapacity(v) - 1)
    /\ UNCHANGED nonMelVars

\* One iteration of the frame loop.
MelFrame ==
    /\ melPc = "frames"
    /\ frame < outputFrames(melVariant)
    /\ LET start == frame * HOP_LENGTH IN
         /\ outOfBounds' = \/ outOfBounds
                           \/ start + N_FFT - 1 >= paddedLen(melVariant)
                           \/ (N_MELS - 1) * N_FRAMES + frame >= N_MELS * N_FRAMES
         /\ silentFrames' = IF frameIsSilent(melVariant, audioLen, start)
                              THEN silentFrames + 1 ELSE silentFrames
    /\ frame' = frame + 1
    /\ UNCHANGED <<melPc, melVariant, audioLen, resultLen, nonMelVars>>

\* After the loop: normalisation, then NewFloatArray(N_MELS * N_FRAMES).
MelReturn ==
    /\ melPc = "frames"
    /\ frame >= outputFrames(melVariant)
    /\ resultLen' = N_MELS * N_FRAMES
    /\ melPc' = "returned"
    /\ UNCHANGED <<melVariant, audioLen, frame, silentFrames, outOfBounds, nonMelVars>>

MelInit ==
    /\ InitMel
    /\ InitCapture
    /\ InitExtra
    /\ InitEngine
    /\ InitCalls
    /\ tailToken = [c \in Callers |-> EOT]
    /\ files = [f \in ModelFiles |-> "nonempty"]

MelNext ==
    \/ \E v \in MelVariants, len \in AudioLens : MelCompute(v, len)
    \/ MelFrame
    \/ MelReturn

MelSpec == MelInit /\ [][MelNext]_vars

(***************************************************************************)
(* Mel spectrogram values: the log10 of the energies and the normalisation *)
(***************************************************************************)
\* What no step of the value computation changes.
nonValueVars == <<engineVars, callVars, tailToken, files, captureVars, melVars, tokVars,
                  managerVars,
    wsVars,
    lifecycleVars,
    fsVars,
    sharedVars,
    spectrumVars>>

Max(a, b) == IF a >= b THEN a ELSE b

\* The mel energies a frame can have: a frame of zeros has the energy zero
\* in every filter (window, FFT and filterbank of zeros are zeros).
SumsOf(input) == IF input = "zeros" THEN {<<"zero", 0>>} ELSE Energies

logMelFloorLow(sum) == IF sum[1] = "zero" \/ sum[2] < FloorExp - 2 THEN FloorExp - 2 ELSE sum[2]
\* log10f(fmaxf(sum, 1e-10f))
logMel(sum) == IF sum[1] = "zero" \/ sum[2] < FloorExp THEN FloorExp ELSE sum[2]

RECURSIVE MaxOver(_, _)
MaxOver(f, S) ==
    LET c == CHOOSE x \in S : TRUE IN
    IF S \ {c} = {} THEN f[c] ELSE Max(f[c], MaxOver(f, S \ {c}))

\* *std::max_element(melSpec.begin(), melSpec.end())
maxVal == MaxOver(melLog, Cells)

clampNone(x, m) == x
\* fmaxf(melSpec[i], maxVal - 8.0f)
clamp(x, m) == Max(x, m - 8)

\* (melSpec[i] + 4.0f) / 4.0f, times 4
normalized4(x) == x + 4

\* The frame loop, for the cells followed: energies, then their log10.
ComputeLogMel(input, sums) ==
    /\ valPc \in {"idle", "normalized"}
    /\ \A c \in Cells : sums[c] \in SumsOf(input[c])
    /\ cellInput' = input
    /\ melSum' = sums
    /\ melLog' = [c \in Cells |-> logMel(sums[c])]
    /\ melOut4' = [c \in Cells |-> 0]
    /\ valPc' = "logged"
    /\ UNCHANGED nonValueVars

\* The normalisation loop.
Normalize ==
    /\ valPc = "logged"
    /\ melOut4' = [c \in Cells |-> normalized4(clamp(melLog[c], maxVal))]
    /\ valPc' = "normalized"
    /\ UNCHANGED <<cellInput, melSum, melLog, nonValueVars>>

ValueInit ==
    /\ InitEngine
    /\ InitCalls
    /\ tailToken = [c \in Callers |-> EOT]
    /\ files = [f \in ModelFiles |-> "nonempty"]
    /\ InitCapture
    /\ InitMel
    /\ InitExtra

ValueNext ==
    \/ \E input \in [Cells -> {"zeros", "signal"}], sums \in [Cells -> Energies] :
          ComputeLogMel(input, sums)
    \/ Normalize

ValueSpec == ValueInit /\ [][ValueNext]_vars

(***************************************************************************)
(* WhisperTokenizer: decode() calls and byte round trips                   *)
(***************************************************************************)
\* What no step of the tokenizer changes.
nonTokVars == <<engineVars, callVars, tailToken, files, captureVars, melVars, valueVars,
                managerVars,
    wsVars,
    lifecycleVars,
    fsVars,
    sharedVars,
    spectrumVars>>

RECURSIVE SeqsUpTo(_, _)
SeqsUpTo(S, n) ==
    IF n = 0 THEN {<<>>}
    ELSE LET shorter == SeqsUpTo(S, n - 1) IN
         shorter \cup {Append(q, x) : q \in shorter, x \in S}

ByteSeqs == {<<b>> : b \in 0 .. 255} \cup SeqsUpTo(ByteSamples, MaxBytes)

\* decode(tokenIds)
Decode(ids) ==
    /\ tokPc = "idle"
    /\ tokIds' = ids
    /\ tokText' = decode(ids)
    /\ tokPc' = "decoded"
    /\ byteSeq' = <<>>
    /\ revBytes' = <<>>
    /\ UNCHANGED nonTokVars

\* A byte sequence is written character by character with the alphabet of
\* bytes_to_unicode, and decode()'s loop over byteDecoder reads it back.
ReverseBytes(bytes) ==
    /\ tokPc = "idle"
    /\ byteSeq' = bytes
    /\ revBytes' = DecodeBytes([i \in 1 .. Len(bytes) |-> ByteToUnicode[bytes[i]]])
    /\ tokPc' = "reversed"
    /\ tokIds' = <<>>
    /\ tokText' = <<>>
    /\ UNCHANGED nonTokVars

\* The caller has taken the result; the tokenizer keeps nothing of the call.
TokReturn ==
    /\ tokPc # "idle"
    /\ tokPc' = "idle"
    /\ tokIds' = <<>>
    /\ tokText' = <<>>
    /\ byteSeq' = <<>>
    /\ revBytes' = <<>>
    /\ UNCHANGED nonTokVars

TokInit ==
    /\ InitEngine
    /\ InitCalls
    /\ tailToken = [c \in Callers |-> EOT]
    /\ files = [f \in ModelFiles |-> "nonempty"]
    /\ InitCapture
    /\ InitMel
    /\ InitExtra

TokNext ==
    \/ \E ids \in SeqsUpTo(DecodeTokens, MaxIds) : Decode(ids)
    \/ \E bytes \in ByteSeqs : ReverseBytes(bytes)
    \/ TokReturn

TokSpec == TokInit /\ [][TokNext]_vars

(***************************************************************************)
(* ModelManager: areModelsReady() calls and files pushed to the device     *)
(***************************************************************************)
\* What no step of ModelManager changes.
nonManagerVars == <<engineVars, callVars, tailToken, captureVars, melVars, valueVars,
                    tokVars,
    wsVars,
    lifecycleVars,
    fsVars,
    sharedVars,
    spectrumVars>>

\* areModelsReady(): the four files are examined and logged; allPresent is
\* returned.
AreModelsReadyCall ==
    /\ filesAtCall' = files
    /\ readyResult' = IF areModelsReady THEN "true" ELSE "false"
    /\ UNCHANGED <<files, nonManagerVars>>

\* adb push, or a removal: a model file changes on the device.
PushFile(f, st) ==
    /\ files[f] # st
    /\ files' = [files EXCEPT ![f] = st]
    /\ readyResult' = "none"
    /\ filesAtCall' = <<>>
    /\ UNCHANGED nonManagerVars

ManagerInit ==
    /\ InitEngine
    /\ InitCalls
    /\ tailToken = [c \in Callers |-> EOT]
    /\ InitFiles
    /\ InitCapture
    /\ InitMel
    /\ InitExtra

ManagerNext ==
    \/ AreModelsReadyCall
    \/ \E f \in ModelFiles, st \in FileStates : PushFile(f, st)

ManagerSpec == ManagerInit /\ [][ManagerNext]_vars

(***************************************************************************)
(* WebSocket pairing: sessions, connections and their message handler      *)
(***************************************************************************)
\* What no step of the pairing server changes.
nonWsVars == <<engineVars, callVars, tailToken, files, captureVars, melVars, valueVars,
               tokVars, managerVars,
    lifecycleVars,
    fsVars,
    sharedVars,
    spectrumVars>>

\* auth.ts validateToken(token).
validateToken(token) == sessionToken # nullToken /\ token = sessionToken

\* ws.close(code, reason) on connection c: an open connection starts its
\* closing handshake, any other is left as it is.
closeCalled(states, c) ==
    [states EXCEPT ![c] = IF @ = "OPEN" THEN "CLOSING" ELSE @]

\* startSession(): nothing if a session is active; else generateToken() and a
\* new WSServer started on the HTTP server.
StartSession ==
    /\ wsServer = 0
    /\ sessions < MaxSessions
    /\ sessions' = sessions + 1
    /\ sessionToken' = randomToken(sessions + 1)
    /\ wsServer' = sessions + 1
    /\ UNCHANGED <<authenticatedClient, readyState, owner, authenticated, authTimeout,
                   received, firstMsg, authSeen, emitted, nonWsVars>>

\* stopSession() of an active session: wsServer.stop() closes the
\* authenticated client and the WebSocketServer, then clearToken() and
\* clearSession(). Whether WebSocketServer.close() also ends the other
\* connections of the server depends on the ws release in use.
StopSession(terminates) ==
    /\ wsServer # 0
    /\ LET client == authenticatedClient[wsServer]
           closed == IF client # "null" THEN closeCalled(readyState, client)
                     ELSE readyState
       IN  readyState' =
               [c \in Conns |->
                   IF terminates /\ owner[c] = wsServer /\ closed[c] # "NONE"
                     THEN "CLOSED" ELSE closed[c]]
    /\ authTimeout' =
           [c \in Conns |->
               IF terminates /\ owner[c] = wsServer /\ authTimeout[c] = "armed"
                 THEN "cleared" ELSE authTimeout[c]]
    /\ authenticatedClient' = [authenticatedClient EXCEPT ![wsServer] = "null"]
    /\ sessionToken' = nullToken
    /\ wsServer' = 0
    /\ UNCHANGED <<sessions, owner, authenticated, received, firstMsg, authSeen,
                   emitted, nonWsVars>>

\* wss.on('connection'): a new connection starts unauthenticated with its
\* 10-second timer armed.
Connect(c) ==
    /\ wsServer # 0
    /\ readyState[c] = "NONE"
    /\ readyState' = [readyState EXCEPT ![c] = "OPEN"]
    /\ owner' = [owner EXCEPT ![c] = wsServer]
    /\ authenticated' = [authenticated EXCEPT ![c] = FALSE]
    /\ authTimeout' = [authTimeout EXCEPT ![c] = "armed"]
    /\ UNCHANGED <<sessionToken, wsServer, sessions, authenticatedClient, received,
                   firstMsg, authSeen, emitted, nonWsVars>>

\* handleMessage(msg): the events an authenticated message raises.
handleMessage(msg) ==
    IF msg.type \in {"annotation", "file_select"} THEN {msg.type} ELSE {}

\* ws.on('message'): JSON.parse inside try/catch (a failure is only logged);
\* an unauthenticated connection accepts a valid auth message and answers
\* anything else with close(4001); an authenticated one hands the message to
\* handleMessage.
OnMessage(c, msg) ==
    /\ readyState[c] \in {"OPEN", "CLOSING"}
    /\ received[c] < MaxMessages
    /\ received' = [received EXCEPT ![c] = @ + 1]
    /\ LET valid == msg.parses /\ msg.type = "auth" /\ validateToken(msg.token) IN
       /\ firstMsg' = [firstMsg EXCEPT ![c] =
                          IF @ # "none" THEN @
                          ELSE IF valid THEN "validAuth" ELSE "other"]
       /\ authSeen' = [authSeen EXCEPT ![c] = @ \/ valid]
       /\ IF ~msg.parses
            THEN UNCHANGED <<authenticated, authTimeout, authenticatedClient,
                             readyState, emitted>>
          ELSE IF ~authenticated[c]
            THEN IF valid
                   THEN /\ authenticated' = [authenticated EXCEPT ![c] = TRUE]
                        /\ authTimeout' = [authTimeout EXCEPT ![c] = "cleared"]
                        /\ authenticatedClient' =
                               [authenticatedClient EXCEPT ![owner[c]] = c]
                        /\ emitted' = [emitted EXCEPT ![c] = @ \cup {"phone_connected"}]
                        /\ UNCHANGED readyState
                   ELSE /\ readyState' = closeCalled(readyState, c)
                        /\ UNCHANGED <<authenticated, authTimeout,
                                       authenticatedClient, emitted>>
          ELSE /\ emitted' = [emitted EXCEPT ![c] = @ \cup handleMessage(msg)]
               /\ UNCHANGED <<authenticated, authTimeout, authenticatedClient,
                              readyState>>
    /\ UNCHANGED <<sessionToken, wsServer, sessions, owner, nonWsVars>>

\* The 10-second timer fires: close(4001) unless the connection authenticated.
AuthTimeout(c) ==
    /\ authTimeout[c] = "armed"
    /\ authTimeout' = [authTimeout EXCEPT ![c] = "fired"]
    /\ readyState' = IF ~authenticated[c] THEN closeCalled(readyState, c)
                     ELSE readyState
    /\ UNCHANGED <<sessionToken, wsServer, sessions, authenticatedClient, owner,
                   authenticated, received, firstMsg, authSeen, emitted, nonWsVars>>

\* ws.on('close'): the connection is gone, on the peer's initiative or at the
\* end of a closing handshake; the server forgets it if it was the
\* authenticated client.
OnClose(c) ==
    /\ readyState[c] \in {"OPEN", "CLOSING"}
    /\ readyState' = [readyState EXCEPT ![c] = "CLOSED"]
    /\ IF authenticated[c] /\ authenticatedClient[owner[c]] = c
         THEN /\ authenticatedClient' = [authenticatedClient EXCEPT ![owner[c]] = "null"]
              /\ emitted' = [emitted EXCEPT ![c] = @ \cup {"phone_disconnected"}]
         ELSE UNCHANGED <<authenticatedClient, emitted>>
    /\ authTimeout' = [authTimeout EXCEPT ![c] = IF @ = "armed" THEN "cleared" ELSE @]
    /\ UNCHANGED <<sessionToken, wsServer, sessions, owner, authenticated, received,
                   firstMsg, authSeen, nonWsVars>>

WsInit ==
    /\ InitEngine
    /\ InitCalls
    /\ tailToken = [c \in Callers |-> EOT]
    /\ files = [f \in ModelFiles |-> "nonempty"]
    /\ InitCapture
    /\ InitMel
    /\ InitExtra

WsNext ==
    \/ StartSession
    \/ \E terminates \in BOOLEAN : StopSession(terminates)
    \/ \E c \in Conns : Connect(c)
    \/ \E c \in Conns, msg \in WsMessages : OnMessage(c, msg)
    \/ \E c \in Conns : AuthTimeout(c)
    \/ \E c \in Conns : OnClose(c)

WsSpec == WsInit /\ [][WsNext]_vars

(***************************************************************************)
(* WhisperInference lifecycle: initialize() and release() called in any    *)
(* order before a transcribe call                                          *)
(***************************************************************************)
\* What initialize() and release() leave alone.
nonEngineVars == <<callVars, tailToken, files, captureVars, melVars, valueVars, tokVars,
                   managerVars, wsVars,
    fsVars,
    sharedVars,
    spectrumVars>>

\* initialize() on an instance in any state: env is assigned first; the
\* provider check or a createSession may throw, and what was assigned before
\* the throw stays assigned, what was not keeps its old value.
InitializeCall(outcome) ==
    /\ pc[1] = "Idle"
    /\ lifecycleOps < MaxLifecycleOps
    /\ lifecycleOps' = lifecycleOps + 1
    /\ IF outcome = "noQnn" THEN qnnProvider # "present" ELSE qnnProvider # "missing"
    /\ qnnProvider' = IF outcome = "noQnn" THEN "missing" ELSE "present"
    /\ outcome \in {"ok", "decoderFail"} => createSessionCanSucceed("encoder")
    /\ outcome = "ok" => createSessionCanSucceed("decoder")
    /\ env' = TRUE
    /\ encoderSession' = (encoderSession \/ outcome \in {"ok", "decoderFail"})
    /\ decoderSession' = (decoderSession \/ outcome = "ok")
    /\ encoderMadeBy' = CASE outcome = "ok" -> "completed"
                          [] outcome = "decoderFail" -> "threw"
                          [] OTHER -> encoderMadeBy
    /\ decoderMadeBy' = IF outcome = "ok" THEN "completed" ELSE decoderMadeBy
    /\ lastLifecycle' = IF outcome = "ok" THEN "initialized" ELSE "initThrew"
    /\ UNCHANGED nonEngineVars

\* release(): both sessions and the environment are closed and set to null.
ReleaseCall ==
    /\ pc[1] = "Idle"
    /\ lifecycleOps < MaxLifecycleOps
    /\ lifecycleOps' = lifecycleOps + 1
    /\ env' = FALSE
    /\ encoderSession' = FALSE
    /\ decoderSession' = FALSE
    /\ encoderMadeBy' = "none"
    /\ decoderMadeBy' = "none"
    /\ lastLifecycle' = "released"
    /\ UNCHANGED <<qnnProvider, nonEngineVars>>

LifecycleInit ==
    /\ InitEngine
    /\ InitCalls
    /\ tailToken = [c \in Callers |-> EOT]
    /\ files = [f \in ModelFiles |-> "nonempty"]
    /\ InitCapture
    /\ InitMel
    /\ InitExtra

LifecycleNext ==
    \/ \E outcome \in {"ok", "noQnn", "encoderFail", "decoderFail"} : InitializeCall(outcome)
    \/ ReleaseCall
    \/ CallNext(1)

LifecycleSpec == LifecycleInit /\ [][LifecycleNext]_vars

(***************************************************************************)
(* state.json on disk: the steps of writeFileSync(tmp), renameSync and     *)
(* readFileSync as the two processes run them                              *)
(***************************************************************************)
\* What no file operation changes.
nonFsVars == <<engineVars, callVars, tailToken, files, captureVars, melVars, valueVars,
               tokVars, managerVars, wsVars, lifecycleVars,
    sharedVars,
    spectrumVars>>

\* A chunk written at offset off of a file: it replaces what is there or
\* extends the file, the gap up to the offset reading as zero bytes.
WriteAt(data, off, chunk) ==
    IF off < Len(data) THEN [data EXCEPT ![off + 1] = chunk]
    ELSE data \o [k \in 1 .. (off - Len(data)) |-> <<"zeros", 0, k>>] \o <<chunk>>

\* writeFileSync(tmpPath, ...), first part: open with O_CREAT | O_TRUNC.  The
\* file state.json.tmp is created, or the existing one is emptied.
WriteOpen(w) ==
    /\ wrPc[w] = "idle"
    /\ wrVer[w] < MaxWrites
    /\ wrVer' = [wrVer EXCEPT ![w] = @ + 1]
    /\ IF tmpName = 0
         THEN /\ inodesUsed < 1 + 2 * MaxWrites
              /\ inodesUsed' = inodesUsed + 1
              /\ tmpName' = inodesUsed + 1
              /\ wrFd' = [wrFd EXCEPT ![w] = inodesUsed + 1]
              /\ UNCHANGED inodeData
         ELSE /\ inodeData' = [inodeData EXCEPT ![tmpName] = <<>>]
              /\ wrFd' = [wrFd EXCEPT ![w] = tmpName]
              /\ UNCHANGED <<inodesUsed, tmpName>>
    /\ wrOff' = [wrOff EXCEPT ![w] = 0]
    /\ wrPc' = [wrPc EXCEPT ![w] = "opened"]
    /\ UNCHANGED <<stateName, observed, reads, nonFsVars>>

\* writeFileSync, second part: the text goes through the descriptor, chunk
\* after chunk, into whatever file the descriptor refers to.
WriteChunk(w) ==
    /\ wrPc[w] = "opened"
    /\ inodeData' = [inodeData EXCEPT ![wrFd[w]] =
                         WriteAt(@, wrOff[w], StateText(w, wrVer[w])[wrOff[w] + 1])]
    /\ wrOff' = [wrOff EXCEPT ![w] = @ + 1]
    /\ wrPc' = [wrPc EXCEPT ![w] = IF wrOff[w] + 1 = ChunksPerState THEN "written"
                                   ELSE "opened"]
    /\ UNCHANGED <<stateName, tmpName, inodesUsed, wrFd, wrVer, observed, reads,
                   nonFsVars>>

\* renameSync(tmpPath, stateFilePath): state.json now names the file that
\* state.json.tmp named; with no state.json.tmp the call throws (the
\* extension logs it, the MCP server's tool fails).
WriteRename(w) ==
    /\ wrPc[w] = "written"
    /\ IF tmpName # 0
         THEN /\ stateName' = tmpName
              /\ tmpName' = 0
              /\ wrPc' = [wrPc EXCEPT ![w] = "idle"]
         ELSE /\ wrPc' = [wrPc EXCEPT ![w] = "failed"]
              /\ UNCHANGED <<stateName, tmpName>>
    /\ wrFd' = [wrFd EXCEPT ![w] = 0]
    /\ UNCHANGED <<inodeData, inodesUsed, wrOff, wrVer, observed, reads, nonFsVars>>

\* The caller of a writeState that failed goes on.
WriteFailed(w) ==
    /\ wrPc[w] = "failed"
    /\ wrPc' = [wrPc EXCEPT ![w] = "idle"]
    /\ UNCHANGED <<inodeData, stateName, tmpName, inodesUsed, wrFd, wrOff, wrVer,
                   observed, reads, nonFsVars>>

\* readState of a process that is not inside its own writeState:
\* readFileSync(state.json).
ReadStateFile(w) ==
    /\ wrPc[w] = "idle"
    /\ stateName # 0
    /\ observed' = inodeData[stateName]
    /\ reads' = IF reads < 1 THEN reads + 1 ELSE reads
    /\ UNCHANGED <<inodeData, stateName, tmpName, inodesUsed, wrPc, wrFd, wrOff, wrVer,
                   nonFsVars>>

FsInit ==
    /\ InitEngine
    /\ InitCalls
    /\ tailToken = [c \in Callers |-> EOT]
    /\ files = [f \in ModelFiles |-> "nonempty"]
    /\ InitCapture
    /\ InitMel
    /\ InitExtra

FsNext ==
    \/ \E w \in Writers : WriteOpen(w)
    \/ \E w \in Writers : WriteChunk(w)
    \/ \E w \in Writers : WriteRename(w)
    \/ \E w \in Writers : WriteFailed(w)
    \/ \E w \in Writers : ReadStateFile(w)

FsSpec == FsInit /\ [][FsNext]_vars

(***************************************************************************)
(* Shared state: the extension's handlers and the MCP server's tools, each *)
(* readState and each writeState taken as one step                         *)
(***************************************************************************)
\* What neither process changes.
nonSharedVars == <<engineVars, callVars, tailToken, files, captureVars, melVars,
                   valueVars, tokVars, managerVars, wsVars, lifecycleVars, fsVars,
    spectrumVars>>

SeqRange(s) == {s[i] : i \in 1 .. Len(s)}

\* The state the handlers of an active session build: getDefaultState, then
\* sessionActive, phoneConnected and currentCode are set.
ActiveState(connected, code) ==
    [DefaultState EXCEPT !.sessionActive = TRUE, !.phoneConnected = connected,
                         !.currentCode = code]

\* existing?.pendingAnnotations || [] after the extension's readState().
ExistingAnnotations == IF stateFile.exists THEN stateFile.pendingAnnotations ELSE <<>>

\* startSession(): the default state, marked active, is written; the initial
\* code capture (sendCodeUpdate) follows.
ExtStartSession ==
    /\ extAlive /\ extPc = "idle" /\ extSession = "none"
    /\ extSession' = "active"
    /\ stateFile' = [DefaultState EXCEPT !.sessionActive = TRUE]
    /\ extPc' = "code_read"
    /\ UNCHANGED <<extAlive, currentCodeState, phoneIsConnected, extLocal, pollLocal,
                   annotationsIn, stored, codeUpdates, mcpPc, mcpLocal, mcpCmd, toolCalls,
                   commands, lastTool, returnedTimes, nonSharedVars>>

\* 'phone_connected': a state without the annotations is written, then
\* sendCodeUpdate runs.
ExtPhoneConnected ==
    /\ extAlive /\ extPc = "idle" /\ extSession = "active" /\ ~phoneIsConnected
    /\ phoneIsConnected' = TRUE
    /\ stateFile' = ActiveState(TRUE, currentCodeState)
    /\ extPc' = "code_read"
    /\ UNCHANGED <<extAlive, extSession, currentCodeState, extLocal, pollLocal, annotationsIn,
                   stored, codeUpdates, mcpPc, mcpLocal, mcpCmd, toolCalls, commands,
                   lastTool, returnedTimes, nonSharedVars>>

\* sendCodeUpdate(), up to its readState(): the code is captured and the state
\* to write is built, the annotations taken from the file.  It runs on an
\* editor change, after a phone connection, at session start, and as the
\* command poll's handler.
ExtCodeRead ==
    /\ extAlive /\ extSession = "active"
    /\ extPc \in {"idle", "code_read", "poll_code_read"}
    /\ extPc = "idle" => codeUpdates < MaxCodeUpdates
    /\ codeUpdates' = IF extPc = "idle" THEN codeUpdates + 1 ELSE codeUpdates
    /\ currentCodeState' = codeUpdates' + 1
    /\ extLocal' = [ActiveState(phoneIsConnected, currentCodeState') EXCEPT
                       !.pendingAnnotations = ExistingAnnotations]
    /\ extPc' = IF extPc = "poll_code_read" THEN "poll_code_write" ELSE "write"
    /\ UNCHANGED <<stateFile, extAlive, extSession, phoneIsConnected, pollLocal, annotationsIn,
                   stored, mcpPc, mcpLocal, mcpCmd, toolCalls, commands, lastTool,
                   returnedTimes, nonSharedVars>>

\* 'annotation', up to its readState(): the new annotation is appended to
\* the annotations taken from the file.
ExtAnnotationRead ==
    /\ extAlive /\ extPc = "idle" /\ extSession = "active" /\ phoneIsConnected
    /\ annotationsIn < MaxAnnotations
    /\ annotationsIn' = annotationsIn + 1
    /\ extLocal' = [ActiveState(phoneIsConnected, currentCodeState) EXCEPT
                       !.pendingAnnotations = Append(ExistingAnnotations, annotationsIn + 1)]
    /\ extPc' = "write"
    /\ UNCHANGED <<stateFile, extAlive, extSession, currentCodeState, phoneIsConnected,
                   pollLocal, stored, codeUpdates, mcpPc, mcpLocal, mcpCmd, toolCalls,
                   commands, lastTool, returnedTimes, nonSharedVars>>

\* 'phone_disconnected', up to its readState().
ExtDisconnectRead ==
    /\ extAlive /\ extPc = "idle" /\ extSession = "active" /\ phoneIsConnected
    /\ phoneIsConnected' = FALSE
    /\ extLocal' = [ActiveState(FALSE, currentCodeState) EXCEPT
                       !.pendingAnnotations = ExistingAnnotations]
    /\ extPc' = "write"
    /\ UNCHANGED <<stateFile, extAlive, extSession, currentCodeState, pollLocal, annotationsIn,
                   stored, codeUpdates, mcpPc, mcpLocal, mcpCmd, toolCalls, commands,
                   lastTool, returnedTimes, nonSharedVars>>

\* stopSession() -> cleanupState(), up to its readState(): the state of the
\* file with sessionActive and phoneConnected cleared.
ExtStopRead ==
    /\ extAlive /\ extPc = "idle" /\ extSession = "active"
    /\ stateFile.exists
    /\ extSession' = "stopped"
    /\ phoneIsConnected' = FALSE
    /\ extLocal' = [stateFile EXCEPT !.sessionActive = FALSE, !.phoneConnected = FALSE]
    /\ extPc' = "write"
    /\ UNCHANGED <<stateFile, extAlive, currentCodeState, pollLocal, annotationsIn, stored,
                   codeUpdates, mcpPc, mcpLocal, mcpCmd, toolCalls, commands, lastTool,
                   returnedTimes, nonSharedVars>>

\* The handler's writeState(st).
ExtWrite ==
    /\ extAlive /\ extPc \in {"write", "poll_code_write"}
    /\ stateFile' = extLocal
    /\ stored' = stored \cup SeqRange(extLocal.pendingAnnotations)
    /\ extPc' = IF extPc = "poll_code_write" THEN "poll_write" ELSE "idle"
    /\ UNCHANGED <<extAlive, extSession, currentCodeState, phoneIsConnected, extLocal,
                   pollLocal, annotationsIn, codeUpdates, mcpPc, mcpLocal, mcpCmd, toolCalls,
                   commands, lastTool, returnedTimes, nonSharedVars>>

HasPending(queue) == \E i \in 1 .. Len(queue) : queue[i].status = "pending"
Completed(queue) == [i \in 1 .. Len(queue) |-> [queue[i] EXCEPT !.status = "completed"]]

\* The 500 ms poll, up to the handler: the state is read; with a pending
\* command the handler (sendCodeUpdate) is called and the command marked
\* completed in the state object read.
ExtPollRead ==
    /\ extAlive /\ extPc = "idle" /\ extSession = "active"
    /\ stateFile.exists
    /\ HasPending(stateFile.commandQueue)
    /\ pollLocal' = [stateFile EXCEPT !.commandQueue = Completed(@)]
    /\ extPc' = "poll_code_read"
    /\ UNCHANGED <<stateFile, extAlive, extSession, currentCodeState, phoneIsConnected,
                   extLocal, annotationsIn, stored, codeUpdates, mcpPc, mcpLocal, mcpCmd,
                   toolCalls, commands, lastTool, returnedTimes, nonSharedVars>>

\* The poll's writeState(state) after the handler.
ExtPollWrite ==
    /\ extAlive /\ extPc = "poll_write"
    /\ stateFile' = pollLocal
    /\ extPc' = "idle"
    /\ UNCHANGED <<extAlive, extSession, currentCodeState, phoneIsConnected, extLocal,
                   pollLocal, annotationsIn, stored, codeUpdates, mcpPc, mcpLocal, mcpCmd,
                   toolCalls, commands, lastTool, returnedTimes, nonSharedVars>>

\* The extension host process dies.
ExtCrash ==
    /\ extAlive
    /\ extSession = "active"
    /\ extAlive' = FALSE
    /\ extPc' = "dead"
    /\ UNCHANGED <<stateFile, extSession, currentCodeState, phoneIsConnected, extLocal,
                   pollLocal, annotationsIn, stored, codeUpdates, mcpPc, mcpLocal, mcpCmd,
                   toolCalls, commands, lastTool, returnedTimes, nonSharedVars>>

\* The state file claims an active session whose process is gone.
StaleSession == stateFile.exists /\ stateFile.sessionActive /\ ~extAlive

\* readState() of the MCP server: null for no file; a stale session is marked
\* inactive, written back and returned.
McpReadState ==
    IF StaleSession
      THEN [stateFile EXCEPT !.sessionActive = FALSE, !.phoneConnected = FALSE]
      ELSE stateFile

\* get_pending_annotation: no session, nothing pending, or all pending
\* annotations are returned and the cleared list is about to be written.
GetPendingAnnotation ==
    /\ mcpPc = "idle" /\ toolCalls < MaxToolCalls
    /\ toolCalls' = toolCalls + 1
    /\ LET state == McpReadState
           answer == IF ~state.exists \/ ~state.sessionActive THEN "noSession"
                     ELSE IF state.pendingAnnotations = <<>> THEN "noPending"
                     ELSE "annotations"
       IN  /\ lastTool' = [tool |-> "get_pending_annotation", stale |-> StaleSession,
                           answer |-> answer]
           /\ IF answer = "annotations"
                THEN /\ returnedTimes' =
                          [a \in 1 .. MaxAnnotations |->
                              IF a \in SeqRange(state.pendingAnnotations)
                                THEN returnedTimes[a] + 1 ELSE returnedTimes[a]]
                     /\ mcpLocal' = [state EXCEPT !.pendingAnnotations = <<>>]
                     /\ mcpPc' = "gpa_write"
                     /\ UNCHANGED stateFile
                ELSE /\ stateFile' = state
                     /\ UNCHANGED <<returnedTimes, mcpLocal, mcpPc>>
    /\ UNCHANGED <<extAlive, extSession, currentCodeState, phoneIsConnected, extPc,
                   extLocal, pollLocal, annotationsIn, stored, codeUpdates, mcpCmd, commands,
                   nonSharedVars>>

\* get_current_code: the code of the state read, unless there is no state or
\* no code in it.
GetCurrentCode ==
    /\ mcpPc = "idle" /\ toolCalls < MaxToolCalls
    /\ toolCalls' = toolCalls + 1
    /\ LET state == McpReadState IN
       /\ lastTool' = [tool |-> "get_current_code", stale |-> StaleSession,
                       answer |-> IF ~state.exists \/ state.currentCode = 0
                                    THEN "noCode" ELSE "code"]
       /\ stateFile' = state
    /\ UNCHANGED <<extAlive, extSession, currentCodeState, phoneIsConnected, extPc,
                   extLocal, pollLocal, annotationsIn, stored, codeUpdates, mcpPc, mcpLocal,
                   mcpCmd, commands, returnedTimes, nonSharedVars>>

\* send_code_to_phone -> enqueueCommand, up to its writeState: no session, or
\* the state read with the new pending command.
SendCodeToPhone ==
    /\ mcpPc = "idle" /\ toolCalls < MaxToolCalls /\ commands < MaxCommands
    /\ toolCalls' = toolCalls + 1
    /\ LET state == McpReadState
           ok == state.exists /\ state.sessionActive
       IN  /\ lastTool' = [tool |-> "send_code_to_phone", stale |-> StaleSession,
                           answer |-> IF ok THEN "waiting" ELSE "noSession"]
           /\ IF ok
                THEN /\ commands' = commands + 1
                     /\ mcpCmd' = commands + 1
                     /\ mcpLocal' = [state EXCEPT !.commandQueue =
                                        Append(@, [id |-> commands + 1,
                                                   status |-> "pending"])]
                     /\ mcpPc' = "enq_write"
                     /\ UNCHANGED stateFile
                ELSE /\ stateFile' = state
                     /\ UNCHANGED <<commands, mcpCmd, mcpLocal, mcpPc>>
    /\ UNCHANGED <<extAlive, extSession, currentCodeState, phoneIsConnected, extPc,
                   extLocal, pollLocal, annotationsIn, stored, codeUpdates, returnedTimes,
                   nonSharedVars>>

\* The tool's writeState(state).
McpWrite ==
    /\ mcpPc \in {"gpa_write", "enq_write"}
    /\ stateFile' = mcpLocal
    /\ mcpPc' = IF mcpPc = "enq_write" THEN "enq_wait" ELSE "idle"
    /\ UNCHANGED <<extAlive, extSession, currentCodeState, phoneIsConnected, extPc,
                   extLocal, pollLocal, annotationsIn, stored, codeUpdates, mcpLocal, mcpCmd,
                   toolCalls, commands, lastTool, returnedTimes, nonSharedVars>>

\* The entry of the command the tool waits for, in a queue.
QueuedCommand(queue) == {queue[i] : i \in {j \in 1 .. Len(queue) : queue[j].id = mcpCmd}}

\* enqueueCommand's 200 ms poll finding an end: the command is gone from the
\* queue, or it is completed; and the 5-second timeout.
EnqueuePoll(timedOut) ==
    /\ mcpPc = "enq_wait"
    /\ LET state == McpReadState
           found == QueuedCommand(state.commandQueue)
           answer == IF timedOut THEN "timedOut"
                     ELSE IF ~state.exists THEN "fileDisappeared"
                     ELSE IF found = {} THEN "disappeared"
                     ELSE IF \E c \in found : c.status = "completed" THEN "done"
                     ELSE "waiting"
       IN  /\ answer # "waiting"
           /\ lastTool' = [lastTool EXCEPT !.answer = answer]
           /\ stateFile' = IF timedOut THEN stateFile ELSE state
    /\ mcpPc' = "idle"
    /\ mcpCmd' = 0
    /\ UNCHANGED <<extAlive, extSession, currentCodeState, phoneIsConnected, extPc,
                   extLocal, pollLocal, annotationsIn, stored, codeUpdates, mcpLocal,
                   toolCalls, commands, returnedTimes, nonSharedVars>>

SharedInit ==
    /\ InitEngine
    /\ InitCalls
    /\ tailToken = [c \in Callers |-> EOT]
    /\ files = [f \in ModelFiles |-> "nonempty"]
    /\ InitCapture
    /\ InitMel
    /\ InitExtra

SharedNext ==
    \/ ExtStartSession
    \/ ExtPhoneConnected
    \/ ExtCodeRead
    \/ ExtAnnotationRead
    \/ ExtDisconnectRead
    \/ ExtStopRead
    \/ ExtWrite
    \/ ExtPollRead
    \/ ExtPollWrite
    \/ ExtCrash
    \/ GetPendingAnnotation
    \/ GetCurrentCode
    \/ SendCodeToPhone
    \/ McpWrite
    \/ \E timedOut \in BOOLEAN : EnqueuePoll(timedOut)

SharedSpec == SharedInit /\ [][SharedNext]_vars

(***************************************************************************)
(* Feature extractor: which frequency each mel filter column weighs        *)
(***************************************************************************)
nonSpectrumVars == <<engineVars, callVars, tailToken, files, captureVars, melVars,
                     valueVars, tokVars, managerVars, wsVars, lifecycleVars, fsVars,
                     sharedVars>>

\* fft(re, im, n): bin k of the n-point transform is the component of
\* frequency k * SAMPLE_RATE / n.
BinHolds(k, n, f) == k * SAMPLE_RATE = f * n

\* computeMelFilterbank(filters, nMels, nFft, sampleRate): column k of the
\* filters stands for the frequency k * sampleRate / nFft (binFreqs = hz *
\* nFft / sampleRate).
FilterColumnHz(k, nFft) == (k * SAMPLE_RATE) \div nFft

\* nativeComputeMelSpectrogram on a clip holding the tone f.
SpectrumCall(f) ==
    /\ spectrumPc \in {"idle", "done"}
    /\ spectrumPc' = "magnitudes"
    /\ tone' = f
    /\ magK' = 0
    /\ peakBin' = -1
    /\ melHz' = -1
    /\ UNCHANGED nonSpectrumVars

\* magnitudes[k] of the first FFT_OUT bins of fft(fftRe, fftIm, FFT_SIZE).
MagnitudeStep ==
    /\ spectrumPc = "magnitudes"
    /\ magK < FFT_OUT
    /\ peakBin' = IF BinHolds(magK, FFT_SIZE, tone) THEN magK ELSE peakBin
    /\ magK' = magK + 1
    /\ UNCHANGED <<spectrumPc, tone, melHz, nonSpectrumVars>>

\* sum += melFilters[m * FFT_OUT + k] * magnitudes[k], the filters built by
\* computeMelFilterbank(melFilters, N_MELS, N_FFT, SAMPLE_RATE).
ApplyFilterbank ==
    /\ spectrumPc = "magnitudes"
    /\ magK = FFT_OUT
    /\ melHz' = IF peakBin = -1 THEN -1 ELSE FilterColumnHz(peakBin, N_FFT)
    /\ spectrumPc' = "done"
    /\ UNCHANGED <<tone, magK, peakBin, nonSpectrumVars>>

SpectrumInit ==
    /\ InitEngine
    /\ InitCalls
    /\ tailToken = [c \in Callers |-> EOT]
    /\ files = [f \in ModelFiles |-> "nonempty"]
    /\ InitCapture
    /\ InitMel
    /\ InitExtra

SpectrumNext ==
    \/ \E f \in Tones : SpectrumCall(f)
    \/ MagnitudeStep
    \/ ApplyFilterbank

SpectrumSpec == SpectrumInit /\ [][SpectrumNext]_vars

(***************************************************************************)
(* Properties                                                              *)
(***************************************************************************)
Terminal(c) == pc[c] \in {"Done", "Failed"}
InFlight(c) == pc[c] \in {"EncoderRunning", "Decoding", "DecoderRunning"}
StepFailed(c) == failure[c] \in {"run", "extract"}
Range(s) == {s[i] : i \in 1 .. Len(s)}
LiveOfKind(c, kinds) == {t \in live[c] : t.kind \in kinds}
SelfKinds == {"k_cache_self", "v_cache_self"}
InputKinds == {"input_ids", "position_ids", "attention_mask"}

\* C1: when a decoder step fails (decoder.run or the reading of its outputs
\* throws), the finished transcribe call has given its caller an error,
\* never a text decoded from the tokens generated before the failing step.
C1_StepFailureSurfaces ==
    \A c \in Callers : (StepFailed(c) /\ Terminal(c)) => result[c].kind = "error"

\* C2: the generated-token collection never holds more than MAX_TOKENS
\* tokens, during the loop and when it is handed to the tokenizer.
C2_GeneratedWithinBudget ==
    \A c \in Callers :
        /\ Len(generatedTokens[c]) <= MAX_TOKENS
        /\ Len(result[c].tokens) <= MAX_TOKENS

\* C3: after every completed decoder step the live self-attention cache
\* tensors are exactly one K and one V per layer, namely the generation the
\* last completed step put out, which is the one the loop holds; the count
\* does not grow with the number of steps.
C3_SelfCacheReplaced ==
    \A c \in Callers :
        (pc[c] \in {"Decoding", "DecoderRunning"} /\ failure[c] = "none") =>
            LET done == IF pc[c] = "DecoderRunning" THEN decoderCalls[c] - 1
                        ELSE decoderCalls[c]
            IN  /\ LiveOfKind(c, SelfKinds) = SelfCaches(done)
                /\ selfCaches[c] = done
                /\ \A l \in Layers : \A k \in SelfKinds :
                       Cardinality({t \in live[c] : t.kind = k /\ t.layer = l}) = 1

C3_Witness ==
    \E c \in Callers :
        /\ pc[c] = "Decoding"
        /\ failure[c] = "none"
        /\ decoderCalls[c] >= MAX_TOKENS
        /\ LiveOfKind(c, SelfKinds) = SelfCaches(decoderCalls[c])

\* C4: when the encoder invocation or a decoder step failed, no tensor the
\* call created (mel input, cross-attention outputs, the self caches it
\* holds, the steps' input tensors) is live once transcribe has ended.
C4_ReleasedOnFailure ==
    \A c \in Callers :
        ((failure[c] = "Encoder" \/ StepFailed(c)) /\ Terminal(c)) =>
            live[c] \cap ({melTensor} \cup CrossCaches \cup SelfCaches(selfCaches[c])
                          \cup LiveOfKind(c, InputKinds)) = {}

\* C5: at decoder step n the mask given to the decoder has exactly n+1
\* unmasked entries and they are its last n+1 slots.
C5_SlidingWindowMask ==
    \A c \in Callers :
        pc[c] = "DecoderRunning" =>
            LET mask == inputs[c].attention_mask
                n    == step[c]
            IN  {i \in DOMAIN mask : mask[i] = zeroFp16} =
                    (ATTN_MASK_SIZE - 1 - n) .. (ATTN_MASK_SIZE - 1)

\* C6: at most one transcribe call of the instance is in the encoder pass
\* or the decode loop at any time.
C6_OneCallInFlight ==
    Cardinality({c \in Callers : InFlight(c)}) <= 1

\* C7: the encoder pass is over before the first decoder step, and the
\* decoder invocations are chained: the invocation for step n is the
\* (n+1)-th, gets position n, the n-th token of the running sequence, and
\* the self caches put out by step n-1 (the zero caches for n = 0), still
\* live; the cross caches are the encoder's.
C7_StepsChained ==
    \A c \in Callers :
        /\ decoderCalls[c] > 0 =>
               (encoderCalls[c] = 1 /\ pc[c] \notin {"Idle", "EncoderRunning"})
        /\ pc[c] = "DecoderRunning" =>
               /\ decoderCalls[c] = step[c] + 1
               /\ inputs[c].position_ids = step[c]
               /\ inputs[c].input_ids = allTokens[c][step[c] + 1]
               /\ inputs[c].self_in = step[c]
               /\ SelfCaches(step[c]) \subseteq live[c]
               /\ inputs[c].cross = CrossCaches

C7_Witness ==
    \E c \in Callers :
        /\ pc[c] = "DecoderRunning"
        /\ step[c] = Len(promptTokens) + 2
        /\ inputs[c].position_ids = step[c]
        /\ inputs[c].input_ids = FIRST_TIMESTAMP

\* The tokens of the running sequence after the prompt and before its last
\* element that are visible to the user.
GeneratedBeforeLast(all) ==
    SelectSeq(SubSeq(all, Len(promptTokens) + 1, Len(all) - 1),
              LAMBDA t : t < FIRST_TIMESTAMP)

\* C8: once a step past the prompt phase has produced EOT, no further
\* decoder step is run, EOT is not among the generated tokens, and the call
\* returns the decoding of exactly the tokens generated before it.
C8_EotStops ==
    \A c \in Callers :
        (lastOut[c].token = EOT /\ lastOut[c].step >= Len(promptTokens) - 1) =>
            /\ pc[c] \in {"Decoding", "Done"}
            /\ brk[c]
            /\ decoderCalls[c] = lastOut[c].step + 1
            /\ EOT \notin Range(generatedTokens[c])
            /\ generatedTokens[c] = GeneratedBeforeLast(allTokens[c])
            /\ pc[c] = "Done" =>
                   /\ result[c].kind = "text"
                   /\ result[c].tokens = generatedTokens[c]
                   /\ result[c].text = decode(GeneratedBeforeLast(allTokens[c]))

C8_Witness ==
    \E c \in Callers :
        /\ pc[c] = "Done"
        /\ lastOut[c].token = EOT
        /\ lastOut[c].step > Len(promptTokens)
        /\ Len(generatedTokens[c]) >= 2
        /\ result[c].text # <<>>

\* C9: every transcribe call ends in Done or Failed after a bounded number
\* of decoder invocations: a call that is under way can always take its
\* next step (a step of the loop, or the return once the loop is left, so
\* it is never stuck short of Done or Failed), it invokes the
\* decoder at most prompt length + MAX_TOKENS times, one invocation per
\* loop step, and a call that used up its budget without EOT returns the
\* text generated so far as a normal result.
C9_Terminates ==
    \A c \in Callers :
        /\ (pc[c] # "Idle" /\ ~Terminal(c)) =>
               \/ ENABLED CallSteps(c)
               \/ pc[c] = "Decoding" /\ LoopLeft(c)
        /\ decoderCalls[c] <= Len(promptTokens) + MAX_TOKENS
        /\ pc[c] \in {"Decoding", "DecoderRunning"} =>
               decoderCalls[c] = step[c] + (IF brk[c] \/ pc[c] = "DecoderRunning"
                                            THEN 1 ELSE 0)
        /\ (pc[c] = "Done" /\ ~brk[c]) =>
               /\ result[c].kind = "text"
               /\ result[c].tokens = generatedTokens[c]
               /\ result[c].text = decode(generatedTokens[c])

C9_Witness ==
    \E c \in Callers :
        /\ pc[c] = "Done"
        /\ ~brk[c]
        /\ failure[c] = "none"
        /\ EOT \notin Range(allTokens[c])
        /\ decoderCalls[c] = Len(promptTokens) + MAX_TOKENS

\* C10: the running sequence starts with the 4-token prompt and never holds
\* more than prompt length + MAX_TOKENS tokens.
C10_RunningSequenceBounded ==
    \A c \in Callers :
        pc[c] \in {"Decoding", "DecoderRunning", "Done"} =>
            /\ SubSeq(allTokens[c], 1, Len(promptTokens)) = promptTokens
            /\ Len(allTokens[c]) <= Len(promptTokens) + MAX_TOKENS

\* C11: the encoder is invoked once per call, and its 8 cross-attention
\* tensors stay live and unreplaced through the whole decode loop: every
\* decoder invocation is given exactly these 8 tensors.
C11_CrossCachesConstant ==
    \A c \in Callers :
        /\ encoderCalls[c] <= 1
        /\ pc[c] \in {"Decoding", "DecoderRunning"} =>
               /\ encoderCalls[c] = 1
               /\ CrossCaches \subseteq live[c]
               /\ Cardinality(LiveOfKind(c, {"k_cache_cross", "v_cache_cross"})) = 2 * N_LAYERS
        /\ pc[c] = "DecoderRunning" =>
               /\ inputs[c].cross = CrossCaches
               /\ Cardinality(inputs[c].cross) = 2 * N_LAYERS

C11_Witness ==
    \E c \in Callers :
        /\ pc[c] = "DecoderRunning"
        /\ step[c] = LoopLimit - 1
        /\ inputs[c].cross = CrossCaches
        /\ encoderCalls[c] = 1

\* The tokens of the running sequence after the prompt that are neither EOT
\* nor a timestamp.
VisibleTokens(all) ==
    SelectSeq(SubSeq(all, Len(promptTokens) + 1, Len(all)),
              LAMBDA t : t # EOT /\ t < FIRST_TIMESTAMP)

\* C12: a timestamp token produced past the prompt phase is appended to the
\* running sequence, where it is the next step's input token, and not to
\* the generated tokens; the generated tokens never contain a timestamp
\* token or EOT.
C12_TimestampsHidden ==
    \A c \in Callers :
        /\ \A t \in Range(generatedTokens[c]) : t < FIRST_TIMESTAMP /\ t # EOT
        /\ \A t \in Range(result[c].tokens) : t < FIRST_TIMESTAMP /\ t # EOT
        /\ pc[c] \in {"Decoding", "DecoderRunning", "Done"} =>
               generatedTokens[c] = VisibleTokens(allTokens[c])
        /\ (lastOut[c].token >= FIRST_TIMESTAMP /\ lastOut[c].step >= Len(promptTokens) - 1) =>
               /\ allTokens[c][lastOut[c].step + 2] = lastOut[c].token
               /\ Len(allTokens[c]) = lastOut[c].step + 2
               /\ pc[c] = "DecoderRunning" => inputs[c].input_ids = lastOut[c].token

C12_Witness ==
    \E c \in Callers :
        /\ pc[c] = "DecoderRunning"
        /\ lastOut[c].token = FIRST_TIMESTAMP
        /\ lastOut[c].step = Len(promptTokens)
        /\ inputs[c].input_ids = FIRST_TIMESTAMP
        /\ generatedTokens[c] = <<72>>
        /\ allTokens[c] = promptTokens \o <<72, FIRST_TIMESTAMP>>

\* C13: while only prompt-feeding steps (0, 1, 2) have completed, whatever
\* tokens they produced, EOT included, the running sequence is still the
\* prompt, nothing has been generated and the loop has not stopped; the
\* input tokens of steps 0..3 are the four prompt tokens in order.
C13_PromptPhaseDiscards ==
    \A c \in Callers :
        /\ (pc[c] \in {"Decoding", "DecoderRunning"} /\ decoderCalls[c] <= Len(promptTokens) - 1) =>
               /\ allTokens[c] = promptTokens
               /\ generatedTokens[c] = <<>>
               /\ failure[c] = "none" => ~brk[c]
        /\ (pc[c] = "Decoding" /\ failure[c] = "none" /\ lastOut[c].step < Len(promptTokens) - 1) =>
               /\ step[c] = lastOut[c].step + 1
               /\ ~LoopLeft(c)
        /\ (pc[c] = "DecoderRunning" /\ step[c] <= Len(promptTokens) - 1) =>
               /\ inputs[c].input_ids = promptTokens[step[c] + 1]
               /\ allTokens[c] = promptTokens

C13_Witness ==
    \E c \in Callers :
        /\ pc[c] = "DecoderRunning"
        /\ step[c] = Len(promptTokens) - 1
        /\ lastOut[c] = [token |-> EOT, step |-> Len(promptTokens) - 2]
        /\ inputs[c].input_ids = NO_TIMESTAMPS
        /\ allTokens[c] = promptTokens

\* C14: whenever areModelsReady() is false, initialize has created neither
\* session and no encoder or decoder invocation happens.
C14_ModelsGateStartup ==
    ~areModelsReady =>
        /\ ~encoderSession
        /\ ~decoderSession
        /\ \A c \in Callers : encoderCalls[c] = 0 /\ decoderCalls[c] = 0

\* C17: the buffer never holds more than MAX_SAMPLES = 480,000 samples, and
\* no clip returned by stop() is longer than that.
C17_BufferBounded ==
    /\ Size(buffer) <= MAX_SAMPLES
    /\ Size(lastClip) <= MAX_SAMPLES

\* C17 witness: stop() has returned a clip of exactly 480,000 samples, which
\* only a last chunk cut down to the remaining room produces.
C17_Witness ==
    /\ mainPc = "idle" /\ lastOp = "stop"
    /\ Size(lastClip) = MAX_SAMPLES

\* C15: after stop() has returned, the clip it returned is exactly what the
\* thread of the matching start() appended since that start(), the buffer is
\* empty, and it stays empty: nothing is appended after the return.
C15_StopReturnsClipAndQuiesces ==
    (mainPc = "idle" /\ lastOp = "stop") =>
        /\ lastClip = captured
        /\ Size(buffer) = 0

\* C16: while a capture thread is alive every buffer access about to run
\* holds the buffer lock, and never are two unlocked accesses, one of them a
\* write, about to run together.
C16_BufferAccessLocked ==
    /\ (\E t \in ThreadIds : Alive(t)) =>
          /\ MainAccess \in {"none", "locked write"}
          /\ \A t \in ThreadIds : ThreadAccess(t) \in {"none", "locked write"}
    /\ ~ \E t \in ThreadIds :
          MainAccess = "unlocked write" /\ ThreadAccess(t) = "unlocked read"

\* C18: a recorder that failed to initialize, or a read that failed, is
\* surfaced as an error: start() does not return normally after a failed
\* initialization, and stop() does not return normally after a failed
\* initialization or a failed read of its session.
C18_MicFailureSurfaces ==
    /\ initFailed => ~(mainPc = "idle" /\ lastOp \in {"start", "stop"})
    /\ readFailed => ~(mainPc = "idle" /\ lastOp = "stop")

C20_FixedMelShape ==
    melPc = "returned" =>
        /\ resultLen = 128 * 3000
        /\ frame = 3000
        /\ ~outOfBounds
        /\ audioLen = 0 => silentFrames = 3000

\* C20 witness: a clip shorter than 30 seconds has been processed; the frames
\* beyond it were computed from the zero padding.
C20_Witness ==
    /\ melPc = "returned"
    /\ audioLen > 0 /\ audioLen < N_SAMPLES
    /\ silentFrames > 0 /\ silentFrames < 3000
    /\ resultLen = 128 * 3000

\* C21: with M the maximum log10 mel energy (M >= -10), every output value v
\* satisfies (M - 8 + 4)/4 <= v <= (M + 4)/4, the maximum output is
\* (M + 4)/4, the spread of the output is at most 2.0 and no value is below
\* -1.5 (all of them stated on 4 * v).
C21_NormalizationRange ==
    valPc = "normalized" =>
        /\ maxVal >= -10
        /\ \A c \in Cells : /\ maxVal - 8 + 4 <= melOut4[c]
                            /\ melOut4[c] <= maxVal + 4
                            /\ melOut4[c] >= -6
        /\ MaxOver(melOut4, Cells) = maxVal + 4
        /\ \A c, d \in Cells : melOut4[c] - melOut4[d] <= 8

\* C21 witness: a matrix has been normalised in which the clamp raised an
\* energy more than 8 below the maximum, so that the spread is exactly 2.0.
C21_Witness ==
    /\ valPc = "normalized"
    /\ \E c, d \in Cells : /\ melLog[c] < maxVal - 8
                           /\ melOut4[d] - melOut4[c] = 8

\* C24: when every frame is made of zeros, every output value is the one of
\* the energy floor, (-10 + 4)/4 = -1.5 (stated on 4 * v).
C24_SilenceIsConstant ==
    (valPc = "normalized" /\ \A c \in Cells : cellInput[c] = "zeros") =>
        \A c \in Cells : melLog[c] = -10 /\ melOut4[c] = -6

\* C24 witness: a matrix of silent frames has been normalised.
C24_Witness ==
    /\ valPc = "normalized"
    /\ \A c \in Cells : cellInput[c] = "zeros" /\ melSum[c] = <<"zero", 0>>

\* C22: the output depends only on the first 480,000 samples, missing ones
\* taken as zero: the inputs of every computed frame are those the frame has
\* for the clip zero-padded or truncated to exactly 480,000 samples.
C22_OnlyFirstSamplesCount ==
    (melPc \in {"frames", "returned"} /\ frame > 0) =>
        LET start == (frame - 1) * HOP_LENGTH
            len == audioLen
            mine == frameInputs(melVariant, len, start)
            full == frameInputs(melVariant, 480000, start)
        IN  \A i \in 0 .. (N_FFT - 1) :
                mine[i] = IF full[i][1] = "sample" /\ full[i][2] >= len
                            THEN <<"zero", 0>> ELSE full[i]

\* C22 witness: a clip longer than 480,000 samples has been processed by the
\* body whose padded array has room beyond 480,000.
C22_Witness ==
    /\ melPc = "returned"
    /\ melVariant = "zero"
    /\ audioLen > 480000
    /\ frame = N_FRAMES

\* C23: no call with an empty clip returns a spectrogram.
C23_EmptyClipRejected ==
    melPc = "returned" => audioLen > 0

\* C25: in the reflection-padding body, computed frame f reads the clip
\* indices 160*f - 200 .. 160*f + 199, an index j < 0 read as -j and an index
\* j > 479,999 as 2*479,999 - j; the padded signal has 3001 frames, of which
\* 3000 are computed.
C25_CenteredFraming ==
    (melVariant = "reflect" /\ melPc \in {"frames", "returned"} /\ frame > 0) =>
        /\ \A i \in 0 .. 399 :
              LET j == 160 * (frame - 1) - 200 + i IN
              paddedSource("reflect", (frame - 1) * HOP_LENGTH + i)
                = IF j < 0 THEN -j ELSE IF j > 479999 THEN 2 * 479999 - j ELSE j
        /\ totalFrames("reflect") = 3001
        /\ frame <= 3000
        /\ melPc = "returned" => frame = 3000

\* C25 witness: the reflection-padding body has computed all its frames, the
\* first and the last of which read reflected samples.
C25_Witness ==
    /\ melVariant = "reflect"
    /\ melPc = "returned"
    /\ frame = 3000
    /\ audioLen = N_SAMPLES

\* C26: decode ignores every token ID >= 50257: what it returned for a list
\* is what it returns for the list without those IDs, and the empty string
\* when no ID below 50257 remains.
C26_SpecialTokensIgnored ==
    tokPc = "decoded" =>
        LET kept == SelectSeq(tokIds, LAMBDA t : t < 50257) IN
        /\ tokText = decode(kept)
        /\ kept = <<>> => tokText = <<>>

\* C26 witness: a list of special tokens only has been decoded, and a list
\* mixing text and special tokens.
C26_Witness ==
    /\ tokPc = "decoded"
    /\ Len(tokIds) = 3
    /\ tokIds[1] = SOT /\ tokIds[2] = 72 /\ tokIds[3] = EOT
    /\ tokText = <<105>>

\* C27: the byte-to-unicode alphabet is a bijection between 256 characters
\* and the bytes 0..255: the bytes '!'..'~', 0xA1..0xAC, 0xAE..0xFF are their
\* own character, the others in ascending order are 256, 257, ...; reading
\* a written byte sequence back gives the sequence.
C27_AlphabetBijective ==
    /\ Cardinality({ByteToUnicode[b] : b \in 0 .. 255}) = 256
    /\ \A b \in (33 .. 126) \cup (161 .. 172) \cup (174 .. 255) : ByteToUnicode[b] = b
    /\ LET rest == (0 .. 255) \ ((33 .. 126) \cup (161 .. 172) \cup (174 .. 255)) IN
       \A b \in rest : ByteToUnicode[b] = 256 + Cardinality({x \in rest : x < b})
    /\ \A b \in 0 .. 255 : byteDecoder[ByteToUnicode[b]] = b
    /\ tokPc = "reversed" => revBytes = byteSeq

\* C27 witness: a byte outside the self-mapped ranges has been written and
\* read back.
C27_Witness ==
    /\ tokPc = "reversed"
    /\ Len(byteSeq) = 2
    /\ ~SelfMappedByte(byteSeq[1]) /\ SelfMappedByte(byteSeq[2])
    /\ revBytes = byteSeq

\* C28: areModelsReady() returns true exactly when encoder/model.onnx,
\* encoder/model.bin, decoder/model.onnx and decoder/model.bin all exist with
\* non-zero length, false when any of them is missing or empty, and the
\* files are after the check what they were before it.
C28_ReadyIffAllFilesPresent ==
    readyResult # "none" =>
        /\ readyResult = "true" <=>
              /\ files[<<"encoder", "model.onnx">>] = "nonempty"
              /\ files[<<"encoder", "model.bin">>] = "nonempty"
              /\ files[<<"decoder", "model.onnx">>] = "nonempty"
              /\ files[<<"decoder", "model.bin">>] = "nonempty"
        /\ (\E f \in ModelFiles : files[f] \in {"absent", "empty"}) => readyResult = "false"
        /\ files = filesAtCall

\* C28 witness: the check has answered false for a set of files of which
\* none is missing and only one is empty.
C28_Witness ==
    /\ readyResult = "false"
    /\ files[<<"decoder", "model.bin">>] = "empty"
    /\ \A f \in ModelFiles \ {<<"decoder", "model.bin">>} : files[f] = "nonempty"

\* The number a 16-bit pattern stands for as OnnxJavaType.FLOAT16 (IEEE
\* binary16: 1 sign bit, 5 exponent bits, 10 fraction bits); a finite one is
\* significand * 2^exponent.
fp16Value(bits) ==
    LET negative == bits \div 32768 = 1
        e == (bits \div 1024) % 32
        f == bits % 1024
    IN  IF e = 31
          THEN [kind |-> IF f = 0 THEN "infinity" ELSE "nan", negative |-> negative,
                significand |-> 0, exponent |-> 0]
        ELSE IF e = 0
          THEN [kind |-> "finite", negative |-> negative, significand |-> f,
                exponent |-> -24]
        ELSE [kind |-> "finite", negative |-> negative, significand |-> 1024 + f,
              exponent |-> e - 25]

\* C29: in the attention mask passed to the decoder every entry is 0.0
\* (unmasked) or the finite 16-bit float -100.0 = -(1600 * 2^-4) (masked),
\* never negative infinity.
C29_MaskedValueFinite ==
    \A c \in Callers :
        pc[c] = "DecoderRunning" =>
            LET mask == inputs[c].attention_mask IN
            \A i \in DOMAIN mask :
                \/ fp16Value(mask[i]) = [kind |-> "finite", negative |-> FALSE,
                                         significand |-> 0, exponent |-> -24]
                \/ fp16Value(mask[i]) = [kind |-> "finite", negative |-> TRUE,
                                         significand |-> 1600, exponent |-> -4]

\* The first clause of C30: a connection raised an annotation or file_select
\* event only after an auth message carrying the then-current session token.
NoEventBeforeAuth ==
    \A c \in Conns :
        emitted[c] \cap {"annotation", "file_select"} # {} => authSeen[c]

\* The second clause of C30: once a connection's first message was anything
\* but a valid auth, close() has been called on the connection.
FirstMessageCloses ==
    \A c \in Conns :
        firstMsg[c] = "other" => readyState[c] \in {"CLOSING", "CLOSED"}

\* The third clause of C30: with the token cleared, validateToken rejects
\* every token, the ones of earlier sessions included.
ClearedTokenRejectsAll ==
    sessionToken = nullToken => \A t \in AuthTokens : ~validateToken(t)

\* C30: on every connection an annotation or file_select event is raised only
\* after an auth message with the current session token arrived on that
\* connection; a first message that is not a valid auth closes the
\* connection; and after clearToken() no token validates, the previous one
\* included.
C30_AuthHandshake ==
    /\ NoEventBeforeAuth
    /\ FirstMessageCloses
    /\ ClearedTokenRejectsAll

\* C40: framing never reads outside its buffers: in both bodies and for every
\* clip length, each computed frame 0..2999 reads padded[start + i],
\* i = 0..399, inside the 480,400-element padded array; the clip is copied
\* inside both arrays; and every index of the reflection padding is inside
\* the 480,000-element clip array.
C40_FramingInBounds ==
    melPc \in {"frames", "returned"} =>
        /\ ~outOfBounds
        /\ frame <= 3000
        /\ copyLen(audioLen) <= audioLen
        /\ copyLen(audioLen) <= copyCapacity(melVariant)
        /\ frame > 0 =>
              LET start == (frame - 1) * HOP_LENGTH IN
              \A i \in 0 .. 399 :
                  /\ start + i \in 0 .. (paddedLen(melVariant) - 1)
                  /\ start + i \in 0 .. (480400 - 1)
        /\ melVariant = "reflect" =>
              \A p \in (0 .. (PAD - 1)) \cup ((N_SAMPLES + PAD) .. (N_SAMPLES + 2 * PAD - 1)) :
                  paddedSource(melVariant, p) \in 0 .. (480000 - 1)

\* C40 witness: the last frame, the one that reads the highest indices, has
\* been computed for a clip longer than 480,000 samples by the body that
\* pads with zeros at the end.
C40_Witness ==
    /\ melVariant = "zero"
    /\ melPc = "frames"
    /\ frame = 3000
    /\ audioLen = 2 * N_SAMPLES

\* C34: the live tensors of a transcribe call stay bounded by a constant
\* whatever the number of decoder steps: when step k is invoked no input or
\* logits tensor of an earlier step is live, and once transcribe has returned
\* normally no tensor created during the call is live.
C34_StepTensorsReleased ==
    \A c \in Callers :
        /\ pc[c] = "DecoderRunning" =>
              \A t \in LiveOfKind(c, InputKinds \cup {"logits"}) : t.gen = step[c]
        /\ (pc[c] = "Done" /\ failure[c] = "none") => live[c] = {}

\* C35: at every decoder invocation the position index given to the decoder
\* is at most ATTN_MASK_SIZE - 1 = 199, and the mask has a masked or an
\* unmasked slot for it: slot position is unmasked and the mask is not the
\* all-unmasked mask of a position beyond its width.
C35_PositionWithinMask ==
    \A c \in Callers :
        pc[c] = "DecoderRunning" =>
            /\ inputs[c].position_ids <= ATTN_MASK_SIZE - 1
            /\ inputs[c].position_ids <= 199
            /\ inputs[c].position_ids \in DOMAIN inputs[c].attention_mask

\* Part of C38: a start() that finds isRecording set returns at once: it
\* creates no thread and leaves the buffer as it is.
StartWhileRecordingIsNoOp ==
    [][(mainPc = "idle" /\ isRecording /\ mainPc' = "idle" /\ lastOp' = "start"
        /\ returned')
       => (thPc' = thPc /\ buffer' = buffer /\ recordingThread' = recordingThread)]_vars

\* C38: capture sessions are isolated: at any time at most one capture
\* thread is alive and appending, and the clip a stop() returned holds
\* samples of the thread of its own start() only, none read by the thread
\* of an earlier start().
C38_SessionsIsolated ==
    /\ Cardinality({t \in ThreadIds : Alive(t)}) <= 1
    /\ (mainPc = "idle" /\ lastOp = "stop" /\ returned) =>
          \A t \in ThreadIds : lastClip[t] <= captured[t]
\* C39: a transcribe call made before initialize(), after release(), or after
\* an initialize() that threw ends in an error without an encoder or decoder
\* invocation; and an encoder or decoder invocation happens only while both
\* sessions are those created by a completed initialize() and not released.
C39_TranscribeNeedsCompletedInit ==
    /\ (pc[1] # "Idle" /\ lastLifecycle \in {"constructed", "released", "initThrew"}) =>
          /\ pc[1] = "Failed"
          /\ result[1].kind = "error"
          /\ encoderCalls[1] = 0 /\ decoderCalls[1] = 0
    /\ (encoderCalls[1] > 0 \/ decoderCalls[1] > 0) =>
          /\ env /\ encoderSession /\ decoderSession
          /\ encoderMadeBy = "completed" /\ decoderMadeBy = "completed"
\* C31: every read of state.json returns one complete state written by a
\* single writeState call, never a partial file or a mixture of two writers'
\* texts.
C31_ReadsSeeOneCompleteState ==
    \E w \in Writers : \E v \in 0 .. MaxWrites : observed = StateText(w, v)
\* C32: when a tool call found the state file claiming an active session
\* whose extension process is dead, the tool answered that there is no
\* session (get_current_code: no code), returning no session data, and the
\* state file now says sessionActive = false and phoneConnected = false.
C32_DeadSessionGated ==
    lastTool.stale =>
        /\ lastTool.answer \in {"noSession", "noCode"}
        /\ ~stateFile.sessionActive
        /\ ~stateFile.phoneConnected

\* C36: while the session is active, a command enqueueCommand has written
\* stays in the queue of the state file until it is completed, whatever the
\* extension writes in between, and enqueueCommand never ends with
\* 'Command disappeared from queue'.
C36_CommandStaysQueued ==
    /\ (mcpPc = "enq_wait" /\ extAlive /\ extSession = "active" /\ stateFile.exists) =>
          QueuedCommand(stateFile.commandQueue) # {}
    /\ lastTool.answer # "disappeared"

\* C37: annotation delivery is exactly-once: no annotation is returned by two
\* get_pending_annotation calls, and while the session is active an
\* annotation that was stored and not yet returned is in the state file or in
\* a state object about to be written.
C37_AnnotationsExactlyOnce ==
    /\ \A a \in 1 .. MaxAnnotations : returnedTimes[a] <= 1
    /\ (extAlive /\ extSession = "active") =>
          \A a \in stored :
              \/ returnedTimes[a] >= 1
              \/ a \in SeqRange(stateFile.pendingAnnotations)
              \/ extPc \in {"write", "poll_code_write"}
                   /\ a \in SeqRange(extLocal.pendingAnnotations)
              \/ extPc \in {"poll_code_read", "poll_code_write", "poll_write"}
                   /\ a \in SeqRange(pollLocal.pendingAnnotations)
\* C33: the output equals the reference log-mel value, whose power spectrum
\* is the N_FFT-point one the filterbank is built for: the power of a tone
\* of f Hz is weighed by the filter column that stands for f Hz.
C33_ToneWeighedAtItsFrequency ==
    spectrumPc = "done" => melHz = tone

====
